---- MODULE Spec2Model ----
(***************************************************************************)
(* Model of the Videoflix backend's transcode pipeline                     *)
(* (content_app/tasks.py, content_app/signals.py, content_app/models.py).  *)
(*                                                                         *)
(* Text is modelled as a sequence of atoms.  An atom is a string of one or *)
(* more characters; the path separator "/", the dot "." and every          *)
(* whitespace character are atoms of their own and occur inside no other   *)
(* atom, so that the character-level functions of os.path and str (rfind,  *)
(* strip, startswith, ...) are computed on atoms exactly as Python         *)
(* computes them on characters.                                            *)
(***************************************************************************)
EXTENDS Integers, Sequences, FiniteSets, TLC

\* ------------------------------------------------------------------------
\* Bounds of the model
\* ------------------------------------------------------------------------
MaxVideos == 2
MaxWorkers == 2
MaxPathLen == 4
MaxCalls == 2
MaxOutputLen == 2
MaxUsers == 2
MaxTokens == 1
MaxResets == 1

\* ------------------------------------------------------------------------
\* str helpers
\* ------------------------------------------------------------------------
SEP == "/"
DOT == "."
Whitespace == {" ", "\n", "\r", "\t"}

\* 1-based position of the last occurrence of c in s, 0 when there is none
\* (Python's s.rfind(c) + 1).
RFind(s, c) ==
  LET hits == {i \in 1..Len(s) : s[i] = c}
  IN IF hits = {} THEN 0 ELSE CHOOSE i \in hits : \A j \in hits : j <= i

\* s[i:] for a 0-based Python index i.
From(s, i) == SubSeq(s, i + 1, Len(s))

\* s[:i] for a 0-based Python index i.
Upto(s, i) == SubSeq(s, 1, i)

RECURSIVE RStripSet(_, _)
RStripSet(s, cs) ==
  IF s # <<>> /\ s[Len(s)] \in cs THEN RStripSet(Upto(s, Len(s) - 1), cs) ELSE s

RECURSIVE LStripSet(_, _)
LStripSet(s, cs) ==
  IF s # <<>> /\ s[1] \in cs THEN LStripSet(Tail(s), cs) ELSE s

\* str.strip(): whitespace removed at both ends.
Strip(s) == LStripSet(RStripSet(s, Whitespace), Whitespace)

\* str.replace(old, new) for a one-character old.
Replace(s, old, new) == [i \in 1..Len(s) |-> IF s[i] = old THEN new ELSE s[i]]

StartsWith(s, c) == s # <<>> /\ s[1] = c
EndsWith(s, c) == s # <<>> /\ s[Len(s)] = c

\* ------------------------------------------------------------------------
\* os.path (posixpath)
\* ------------------------------------------------------------------------
\* posixpath.basename: everything after the last separator.
Basename(p) == From(p, RFind(p, SEP))

\* posixpath.dirname: everything up to the last separator, trailing
\* separators removed unless the head consists of separators only.
Dirname(p) ==
  LET head == Upto(p, RFind(p, SEP))
  IN IF head # <<>> /\ (\E i \in 1..Len(head) : head[i] # SEP)
       THEN RStripSet(head, {SEP})
       ELSE head

\* posixpath.split: (dirname, basename).
Split(p) == <<Dirname(p), Basename(p)>>

\* genericpath._splitext: split at the last dot of the last component,
\* unless that component consists of leading dots only up to that dot.
Splitext(p) ==
  LET sepIndex == RFind(p, SEP)
      dotIndex == RFind(p, DOT)
  IN IF dotIndex > sepIndex
        /\ (\E k \in (sepIndex + 1)..(dotIndex - 1) : p[k] # DOT)
       THEN <<Upto(p, dotIndex - 1), From(p, dotIndex - 1)>>
       ELSE <<p, <<>> >>

\* posixpath.join of two parts.
Join2(a, b) ==
  IF StartsWith(b, SEP) THEN b
  ELSE IF a = <<>> \/ EndsWith(a, SEP) THEN a \o b
  ELSE a \o <<SEP>> \o b

Join3(a, b, c) == Join2(Join2(a, b), c)

\* str.split(sep): the parts between separators, empty parts included.
RECURSIVE SplitOn(_, _)
SplitOn(s, c) ==
  LET hits == {i \in 1..Len(s) : s[i] = c}
  IN IF hits = {} THEN <<s>>
     ELSE LET i == CHOOSE k \in hits : \A j \in hits : k <= j
          IN <<Upto(s, i - 1)>> \o SplitOn(From(s, i), c)

\* sep.join(parts)
RECURSIVE JoinWith(_, _)
JoinWith(parts, c) ==
  IF parts = <<>> THEN <<>>
  ELSE IF Len(parts) = 1 THEN parts[1]
  ELSE parts[1] \o <<c>> \o JoinWith(Tail(parts), c)

PARDIR == <<DOT, DOT>>
CURDIR == <<DOT>>

\* The loop of posixpath.normpath over the components of a path:
\* empty and "." components are dropped, ".." removes the component before
\* it (and is dropped at the root of an absolute path).
RECURSIVE NormComps(_, _, _)
NormComps(comps, acc, absolute) ==
  IF comps = <<>> THEN acc
  ELSE LET c == Head(comps)
           acc2 == IF c = <<>> \/ c = CURDIR THEN acc
                   ELSE IF c # PARDIR
                           \/ (~absolute /\ acc = <<>>)
                           \/ (acc # <<>> /\ acc[Len(acc)] = PARDIR)
                          THEN Append(acc, c)
                   ELSE IF acc # <<>> THEN Upto(acc, Len(acc) - 1)
                   ELSE acc
       IN NormComps(Tail(comps), acc2, absolute)

\* posixpath.relpath(path, start) for absolute path and start: the
\* components of both after normpath, ".." for every component of start
\* beyond the common prefix, then the rest of path.
Relpath(path, start) ==
  LET start_list == NormComps(SplitOn(start, SEP), <<>>, TRUE)
      path_list == NormComps(SplitOn(path, SEP), <<>>, TRUE)
      m == IF Len(start_list) < Len(path_list)
             THEN Len(start_list) ELSE Len(path_list)
      agree == {k \in 0..m : \A j \in 1..k : start_list[j] = path_list[j]}
      i == CHOOSE k \in agree : \A j \in agree : j <= k
      rel_list == [k \in 1..(Len(start_list) - i) |-> PARDIR]
                    \o From(path_list, i)
  IN IF rel_list = <<>> THEN CURDIR ELSE JoinWith(rel_list, SEP)

\* ------------------------------------------------------------------------
\* Filesystem: the set of directories and the set of regular files, each
\* named by its path.
\* ------------------------------------------------------------------------
IsRoot(p) == p # <<>> /\ \A i \in 1..Len(p) : p[i] = SEP

\* os.path.isdir / os.path.isfile / os.path.exists
IsDir(fs, p) == p \in fs.dirs \/ IsRoot(p)
IsFile(fs, p) == p \in fs.files
Exists(fs, p) == IsDir(fs, p) \/ IsFile(fs, p)

NoError == "none"

\* os.mkdir: the parent must be a directory (the working directory for a
\* bare name) and the name must be free.
Mkdir(fs, p) ==
  LET parent == Dirname(p)
  IN IF Exists(fs, p) THEN [fs |-> fs, err |-> "FileExistsError"]
     ELSE IF p = <<>> THEN [fs |-> fs, err |-> "FileNotFoundError"]
     ELSE IF parent = <<>> \/ IsDir(fs, parent)
       THEN [fs |-> [fs EXCEPT !.dirs = @ \cup {p}], err |-> NoError]
     ELSE IF IsFile(fs, parent) THEN [fs |-> fs, err |-> "NotADirectoryError"]
     ELSE [fs |-> fs, err |-> "FileNotFoundError"]

\* The only element of a one-element set.
TheOne(S) == CHOOSE x \in S : TRUE

\* os.makedirs(name, exist_ok=True)
RECURSIVE MakeDirs(_, _)
MakeDirs(fs, name) ==
  LET s1 == Split(name)
      s2 == IF s1[2] = <<>> THEN Split(s1[1]) ELSE s1
      head == s2[1]
      tail == s2[2]
  IN TheOne({ IF up.err \notin {NoError, "FileExistsError"} THEN up
              ELSE TheOne({ IF made.err # NoError /\ IsDir(up.fs, name)
                              THEN [fs |-> up.fs, err |-> NoError]
                              ELSE made :
                            made \in {Mkdir(up.fs, name)} }) :
              up \in { IF head # <<>> /\ tail # <<>> /\ ~Exists(fs, head)
                         THEN MakeDirs(fs, head)
                         ELSE [fs |-> fs, err |-> NoError] } })

\* shutil.rmtree(p): the directory and everything below it.
IsBelow(q, p) ==
  Len(q) > Len(p) /\ Upto(q, Len(p)) = p /\ q[Len(p) + 1] = SEP

Rmtree(fs, p) ==
  [dirs |-> {d \in fs.dirs : d # p /\ ~IsBelow(d, p)},
   files |-> {f \in fs.files : ~IsBelow(f, p)}]

\* os.remove(p)
Remove(fs, p) == [fs EXCEPT !.files = @ \ {p}]

\* ------------------------------------------------------------------------
\* Settings (the values of the specification's example)
\* ------------------------------------------------------------------------
MEDIA_ROOT == <<SEP, "data", SEP, "media">>
MEDIA_URL == <<SEP, "media", SEP>>
MEDIA_BASE_URL == <<"https:", SEP, SEP, "cdn", DOT, "example">>

\* Video.video_file: FileField(upload_to="videos/"); its .path is the name
\* under MEDIA_ROOT.
UPLOAD_TO == <<"videos", SEP>>
VideoFilePath(name) == Join2(MEDIA_ROOT, UPLOAD_TO \o name)

\* ------------------------------------------------------------------------
\* content_app/tasks.py
\* ------------------------------------------------------------------------
Variants == <<"480p", "720p", "1080p">>

Mut_has_audio_ignores_status(probe) == Strip(probe.stdout) # <<>>

\* _has_audio: probe is the finished ffprobe process.
_has_audio(probe) == probe.returncode = 0 /\ Strip(probe.stdout) # <<>>

\* _prepare_hls_dirs: the directories are made in order; the first error
\* aborts the call.
RECURSIVE MakeAll(_, _)
MakeAll(fs, names) ==
  IF names = <<>> THEN [fs |-> fs, err |-> NoError]
  ELSE TheOne({ IF r.err # NoError THEN r ELSE MakeAll(r.fs, Tail(names)) :
                r \in {MakeDirs(fs, Head(names))} })

Mut_prepare_hls_dirs_keeps_ext(fs, source) ==
  LET output_dir == Join2(Dirname(source), Basename(source) \o <<"_hls">>)
      r == MakeAll(fs, <<output_dir>>
                         \o [i \in 1..Len(Variants) |->
                               Join2(output_dir, <<Variants[i]>>)])
  IN [fs |-> r.fs, err |-> r.err, ret |-> output_dir]

Mut_prepare_hls_dirs_not_exist_ok(fs, source) ==
  LET base_dir == Dirname(source)
      base_name == Splitext(Basename(source))[1]
      output_dir == Join2(base_dir, base_name \o <<"_hls">>)
      r == IF Exists(fs, output_dir)
             THEN [fs |-> fs, err |-> "FileExistsError"]
             ELSE MakeAll(fs, <<output_dir>>
                                \o [i \in 1..Len(Variants) |->
                                      Join2(output_dir, <<Variants[i]>>)])
  IN [fs |-> r.fs, err |-> r.err, ret |-> output_dir]

_prepare_hls_dirs(fs, source) ==
  LET base_dir == Dirname(source)
      base_name == Splitext(Basename(source))[1]
      output_dir == Join2(base_dir, base_name \o <<"_hls">>)
      r == MakeAll(fs, <<output_dir>>
                         \o [i \in 1..Len(Variants) |->
                               Join2(output_dir, <<Variants[i]>>)])
  IN [fs |-> r.fs, err |-> r.err, ret |-> output_dir]

Mut_hls_maps_keeps_audio_opts(has_audio) ==
  IF ~has_audio
    THEN << << <<"-map">>, <<"[v480out]">>,
               <<"-map">>, <<"[v720out]">>,
               <<"-map">>, <<"[v1080out]">> >>,
            <<"v:0", ",", "name:480p", " ",
              "v:1", ",", "name:720p", " ",
              "v:2", ",", "name:1080p">>,
            << <<"-c:a">>, <<"aac">>, <<"-ar">>, <<"48000">> >> >>
    ELSE << << <<"-map">>, <<"[v480out]">>, <<"-map">>, <<"0:a:0?">>,
               <<"-map">>, <<"[v720out]">>, <<"-map">>, <<"0:a:0?">>,
               <<"-map">>, <<"[v1080out]">>, <<"-map">>, <<"0:a:0?">> >>,
            <<"v:0", ",", "a:0", ",", "name:480p", " ",
              "v:1", ",", "a:1", ",", "name:720p", " ",
              "v:2", ",", "a:2", ",", "name:1080p">>,
            << <<"-c:a">>, <<"aac">>, <<"-ar">>, <<"48000">> >> >>

Mut_hls_maps_one_audio_map(has_audio) ==
  IF ~has_audio
    THEN << << <<"-map">>, <<"[v480out]">>,
               <<"-map">>, <<"[v720out]">>,
               <<"-map">>, <<"[v1080out]">> >>,
            <<"v:0", ",", "name:480p", " ",
              "v:1", ",", "name:720p", " ",
              "v:2", ",", "name:1080p">>,
            << >> >>
    ELSE << << <<"-map">>, <<"[v480out]">>,
               <<"-map">>, <<"[v720out]">>,
               <<"-map">>, <<"[v1080out]">>, <<"-map">>, <<"0:a:0?">> >>,
            <<"v:0", ",", "a:0", ",", "name:480p", " ",
              "v:1", ",", "a:1", ",", "name:720p", " ",
              "v:2", ",", "a:2", ",", "name:1080p">>,
            << <<"-c:a">>, <<"aac">>, <<"-ar">>, <<"48000">> >> >>

\* _hls_maps_and_audio: <<maps, var_stream_map, audio_opts>>.
_hls_maps_and_audio(has_audio) ==
  IF ~has_audio
    THEN << << <<"-map">>, <<"[v480out]">>,
               <<"-map">>, <<"[v720out]">>,
               <<"-map">>, <<"[v1080out]">> >>,
            <<"v:0", ",", "name:480p", " ",
              "v:1", ",", "name:720p", " ",
              "v:2", ",", "name:1080p">>,
            << >> >>
    ELSE << << <<"-map">>, <<"[v480out]">>, <<"-map">>, <<"0:a:0?">>,
               <<"-map">>, <<"[v720out]">>, <<"-map">>, <<"0:a:0?">>,
               <<"-map">>, <<"[v1080out]">>, <<"-map">>, <<"0:a:0?">> >>,
            <<"v:0", ",", "a:0", ",", "name:480p", " ",
              "v:1", ",", "a:1", ",", "name:720p", " ",
              "v:2", ",", "a:2", ",", "name:1080p">>,
            << <<"-c:a">>, <<"aac">>, <<"-ar">>, <<"48000">> >> >>

FILTER_COMPLEX ==
  <<"[0:v]split=3[v480][v720][v1080];", "[v480]scale=854:480[v480out];",
    "[v720]scale=1280:720[v720out];", "[v1080]scale=1920:1080[v1080out]">>

\* _build_hls_cmd: the argument list, one sequence of atoms per argument.
_build_hls_cmd(source, output_dir, has_audio) ==
  LET m == _hls_maps_and_audio(has_audio)
      maps == m[1]
      var_stream_map == m[2]
      audio_opts == m[3]
  IN << <<"ffmpeg">>, <<"-i">>, source, <<"-filter_complex">>, FILTER_COMPLEX >>
     \o maps
     \o << <<"-c:v">>, <<"libx264">>, <<"-crf">>, <<"23">> >>
     \o audio_opts
     \o << <<"-f">>, <<"hls">>, <<"-hls_time">>, <<"6">>,
            <<"-hls_playlist_type">>, <<"vod">>,
            <<"-hls_segment_filename">>,
            Join3(output_dir, <<"%v">>, <<"segment_%03d", DOT, "ts">>),
            <<"-master_pl_name">>, <<"master", DOT, "m3u8">>,
            <<"-var_stream_map">>, var_stream_map,
            Join3(output_dir, <<"%v">>, <<"playlist", DOT, "m3u8">>) >>

Mut_run_ffmpeg_untrimmed(result) ==
  IF result.returncode # 0
    THEN [raised |-> TRUE,
          message |-> <<"ffmpeg failed with code ", ToString(result.returncode), ": ">>
                        \o result.stderr,
          calls |-> 1]
    ELSE [raised |-> FALSE, message |-> <<>>, calls |-> 1]

\* _run_ffmpeg: result is the finished process of the single
\* subprocess.run call; a non-zero return code raises RuntimeError.
_run_ffmpeg(result) ==
  IF result.returncode # 0
    THEN [raised |-> TRUE,
          message |-> <<"ffmpeg failed with code ", ToString(result.returncode), ": ">>
                        \o Strip(result.stderr),
          calls |-> 1]
    ELSE [raised |-> FALSE, message |-> <<>>, calls |-> 1]

\* _thumbnail_output_path
_thumbnail_output_path(fs, source) ==
  LET base_name == Splitext(Basename(source))[1]
      output_dir == Join2(MEDIA_ROOT, <<"thumbnail">>)
      r == MakeDirs(fs, output_dir)
  IN [fs |-> r.fs, err |-> r.err,
      ret |-> Join2(output_dir, base_name \o <<DOT, "jpg">>)]

\* The settings _thumbnail_url reads.
Settings ==
  [MEDIA_ROOT |-> MEDIA_ROOT, MEDIA_URL |-> MEDIA_URL,
   MEDIA_BASE_URL |-> MEDIA_BASE_URL]

Mut_thumbnail_url_keeps_slashes(settings, output_path) ==
  LET relative_path == Replace(Relpath(output_path, settings.MEDIA_ROOT),
                               "\\", SEP)
      media_url == settings.MEDIA_URL
      base_url == settings.MEDIA_BASE_URL
  IN base_url \o <<SEP>> \o media_url \o relative_path

\* _thumbnail_url under the given settings.
_thumbnail_url_with(settings, output_path) ==
  LET relative_path == Replace(Relpath(output_path, settings.MEDIA_ROOT),
                               "\\", SEP)
      media_url == LStripSet(settings.MEDIA_URL, {SEP})
      base_url == RStripSet(settings.MEDIA_BASE_URL, {SEP})
  IN base_url \o <<SEP>> \o media_url \o relative_path

\* _thumbnail_url
_thumbnail_url(output_path) == _thumbnail_url_with(Settings, output_path)

\* The command of extract_thumbnail.
ThumbnailCmd(source, output_path) ==
  << <<"ffmpeg">>, <<"-y">>, <<"-ss">>, <<"00:00:01">>, <<"-i">>, source,
     <<"-frames:v">>, <<"1">>, <<"-q:v">>, <<"2">>, output_path >>

\* ------------------------------------------------------------------------
\* State
\* ------------------------------------------------------------------------
VARIABLES
  rows,     \* the Video table: primary key -> row
  next_pk,  \* the next primary key the table hands out
  fs,       \* the filesystem: [dirs, files]
  jobs,     \* the jobs of the 'default' queue, in the order of enqueueing
  arg,      \* the input of a function applied on its own
  res,      \* the results of its successive applications
  users,        \* the User table: primary key -> row
  outstanding,  \* the refresh tokens issued: jti -> primary key of the user
  blacklist,    \* the jti's of the blacklisted refresh tokens
  activated,    \* the users activate_user has returned
  resp          \* the last request of the auth API and its response

authVars == <<users, outstanding, blacklist, activated, resp>>

vars == <<rows, next_pk, fs, jobs, arg, res, authVars>>

\* The auth API before any request.
NoResp == [op |-> "none"]

AuthIdle ==
  /\ users = <<>>
  /\ outstanding = <<>>
  /\ blacklist = {}
  /\ activated = {}
  /\ resp = NoResp

NoUrl == <<>>
Titles == {"t1"}

\* The file names of the uploads.
UploadNames ==
  { <<"clip", DOT, "mp4">>, <<"clip", DOT, "mkv">>, <<"clip", "_hls">> }

\* Return codes and outputs of the external tools.
RetCodes == {0, 1}
NoProc == [returncode |-> 0, stdout |-> <<>>]
ProbeStdouts == { <<>>, <<"1", "\n">> }

NewJob(func, video_id, source) ==
  [func |-> func, video_id |-> video_id, source |-> source, pc |-> "queued",
   probe |-> NoProc, has_audio |-> FALSE, output |-> <<>>, cmd |-> <<>>,
   calls |-> 0, rc |-> 0, err |-> NoError]

JobIds == 1..Len(jobs)
Running(j) == jobs[j].pc \notin {"queued", "completed", "failed"}

\* A worker takes the oldest queued job when one of the workers is idle.
CanStart(j) ==
  /\ jobs[j].pc = "queued"
  /\ \A i \in 1..(j - 1) : jobs[i].pc # "queued"
  /\ Cardinality({i \in JobIds : Running(i)}) < MaxWorkers

\* ------------------------------------------------------------------------
\* content_app/signals.py
\* ------------------------------------------------------------------------
\* video_post_save: the queue after the handler ran for the saved instance.
\* The video_id of a convert_hls job is kept for reference only: the job
\* is called with the path alone.
Mut_video_post_save_every_save(queue, pk, instance, created) ==
  queue \o << NewJob("convert_hls", pk, instance.video_file),
              NewJob("extract_thumbnail", pk, instance.video_file) >>

video_post_save(queue, pk, instance, created) ==
  IF created
    THEN queue \o << NewJob("convert_hls", pk, instance.video_file),
                     NewJob("extract_thumbnail", pk, instance.video_file) >>
    ELSE queue

Mut_auto_delete_keeps_thumbnail(fs0, instance) ==
  IF instance.video_file # <<>>
    THEN LET path == instance.video_file
             fs1 == IF IsFile(fs0, path) THEN Remove(fs0, path) ELSE fs0
             base_dir == Dirname(path)
             base_name == Splitext(Basename(path))[1]
             hls_dir == Join2(base_dir, base_name \o <<"_hls">>)
         IN IF IsDir(fs1, hls_dir) THEN Rmtree(fs1, hls_dir) ELSE fs1
    ELSE fs0

\* auto_delete_video_on_delete: the filesystem after the handler ran.
auto_delete_video_on_delete(fs0, instance) ==
  IF instance.video_file # <<>>
    THEN LET path == instance.video_file
             fs1 == IF IsFile(fs0, path) THEN Remove(fs0, path) ELSE fs0
             base_dir == Dirname(path)
             base_name == Splitext(Basename(path))[1]
             hls_dir == Join2(base_dir, base_name \o <<"_hls">>)
             fs2 == IF IsDir(fs1, hls_dir) THEN Rmtree(fs1, hls_dir) ELSE fs1
             thumbnail_path == Join3(MEDIA_ROOT, <<"thumbnail">>,
                                     base_name \o <<DOT, "jpg">>)
         IN IF IsFile(fs2, thumbnail_path)
              THEN Remove(fs2, thumbnail_path) ELSE fs2
    ELSE fs0

\* ------------------------------------------------------------------------
\* Saves and deletes of Video rows
\* ------------------------------------------------------------------------
\* Video.objects.create with an uploaded file: the storage writes the file
\* under a free name, the row is inserted, post_save runs with created=True.
CreateVideo(name, title) ==
  LET path == VideoFilePath(name)
      made == MakeDirs(fs, Dirname(path))
      instance == [title |-> title, thumbnail_url |-> NoUrl, video_file |-> path]
  IN /\ next_pk <= MaxVideos
     /\ ~Exists(fs, path)
     /\ made.err = NoError
     /\ fs' = [made.fs EXCEPT !.files = @ \cup {path}]
     /\ rows' = [pk \in DOMAIN rows \cup {next_pk} |->
                   IF pk = next_pk THEN instance ELSE rows[pk]]
     /\ next_pk' = next_pk + 1
     /\ jobs' = video_post_save(jobs, next_pk, instance, TRUE)
     /\ UNCHANGED <<arg, res, authVars>>

\* save() of an existing row with an edited title: post_save runs with
\* created=False.
EditedTitles == {"t2"}

UpdateVideo(pk, title) ==
  /\ pk \in DOMAIN rows
  /\ LET instance == [rows[pk] EXCEPT !.title = title]
     IN /\ rows' = [rows EXCEPT ![pk] = instance]
        /\ jobs' = video_post_save(jobs, pk, instance, FALSE)
  /\ UNCHANGED <<next_pk, fs, arg, res, authVars>>

\* delete() of a row: post_delete runs after the row is gone.
DeleteVideo(pk) ==
  /\ pk \in DOMAIN rows
  /\ rows' = [k \in DOMAIN rows \ {pk} |-> rows[k]]
  /\ fs' = auto_delete_video_on_delete(fs, rows[pk])
  /\ UNCHANGED <<next_pk, jobs, arg, res, authVars>>

\* ------------------------------------------------------------------------
\* The external tools.  A finished process is its return code, its
\* captured output and the filesystem it leaves behind.  A tool may fail
\* for any reason; it can succeed only when it can read its input and
\* write all its outputs.
\* ------------------------------------------------------------------------
\* The files the tool writes: each into its directory, which a tool that
\* makes directories (mkdirs) creates when it is missing.
RECURSIVE ToolWrite(_, _, _)
ToolWrite(fs0, paths, mkdirs) ==
  IF paths = <<>> THEN [fs |-> fs0, ok |-> TRUE]
  ELSE LET path == Head(paths)
       IN TheOne({ IF made.err # NoError \/ ~IsDir(made.fs, Dirname(path))
                      \/ IsDir(made.fs, path)
                     THEN [fs |-> made.fs, ok |-> FALSE]
                     ELSE ToolWrite([made.fs EXCEPT !.files = @ \cup {path}],
                                    Tail(paths), mkdirs) :
                   made \in { IF mkdirs THEN MakeDirs(fs0, Dirname(path))
                              ELSE [fs |-> fs0, err |-> NoError] } })

FfprobeRuns(fs0, source) ==
  IF IsFile(fs0, source)
    THEN [returncode : RetCodes, stdout : ProbeStdouts]
    ELSE {[returncode |-> 1, stdout |-> <<>>]}

FailStderr == <<"Conversion failed!", "\n">>

FfmpegRuns(fs0, source, outputs, mkdirs) ==
  LET all == ToolWrite(fs0, outputs, mkdirs)
      some == ToolWrite(fs0, <<outputs[Len(outputs)]>>, mkdirs)
      readable == IsFile(fs0, source)
      left == {fs0} \cup (IF readable /\ some.ok THEN {some.fs} ELSE {})
  IN (IF readable /\ all.ok
        THEN {[returncode |-> 0, stderr |-> <<>>, fs |-> all.fs]}
        ELSE {})
     \cup {[returncode |-> rc, stderr |-> FailStderr, fs |-> f] :
              rc \in RetCodes \ {0}, f \in left}

\* The outputs of the HLS command (docstring of _build_hls_cmd): the master
\* playlist, and a playlist and the first segment of every variant.
HlsOutputs(output_dir) ==
  << Join2(output_dir, <<"master", DOT, "m3u8">>) >>
  \o [i \in 1..Len(Variants) |->
        Join3(output_dir, <<Variants[i]>>, <<"playlist", DOT, "m3u8">>)]
  \o [i \in 1..Len(Variants) |->
        Join3(output_dir, <<Variants[i]>>, <<"segment_000", DOT, "ts">>)]

\* ------------------------------------------------------------------------
\* The job convert_hls(source), one action per call it makes
\* ------------------------------------------------------------------------
Mut_ConvertHasAudio_checks_probe(j) ==
  /\ jobs[j].func = "convert_hls"
  /\ CanStart(j)
  /\ \E probe \in FfprobeRuns(fs, jobs[j].source) :
       jobs' = IF probe.returncode # 0
                 THEN [jobs EXCEPT ![j].pc = "failed",
                                   ![j].probe = probe,
                                   ![j].err = "CalledProcessError"]
                 ELSE [jobs EXCEPT ![j].pc = "prepare",
                                   ![j].probe = probe,
                                   ![j].has_audio = _has_audio(probe)]
  /\ UNCHANGED <<rows, next_pk, fs, arg, res, authVars>>

\* has_audio = _has_audio(source)
ConvertHasAudio(j) ==
  /\ jobs[j].func = "convert_hls"
  /\ CanStart(j)
  /\ \E probe \in FfprobeRuns(fs, jobs[j].source) :
       jobs' = [jobs EXCEPT ![j].pc = "prepare",
                            ![j].probe = probe,
                            ![j].has_audio = _has_audio(probe)]
  /\ UNCHANGED <<rows, next_pk, fs, arg, res, authVars>>

\* output_dir = _prepare_hls_dirs(source)
ConvertPrepare(j) ==
  /\ jobs[j].func = "convert_hls"
  /\ jobs[j].pc = "prepare"
  /\ LET r == _prepare_hls_dirs(fs, jobs[j].source)
     IN /\ fs' = r.fs
        /\ jobs' = IF r.err # NoError
                     THEN [jobs EXCEPT ![j].pc = "failed", ![j].err = r.err]
                     ELSE [jobs EXCEPT ![j].pc = "run", ![j].output = r.ret]
  /\ UNCHANGED <<rows, next_pk, arg, res, authVars>>

\* cmd = _build_hls_cmd(source, output_dir, has_audio); _run_ffmpeg(cmd)
ConvertRun(j) ==
  /\ jobs[j].func = "convert_hls"
  /\ jobs[j].pc = "run"
  /\ LET cmd == _build_hls_cmd(jobs[j].source, jobs[j].output, jobs[j].has_audio)
     IN \E result \in FfmpegRuns(fs, jobs[j].source,
                                  HlsOutputs(jobs[j].output), TRUE) :
          LET run == _run_ffmpeg(result)
          IN /\ fs' = result.fs
             /\ jobs' = [jobs EXCEPT
                    ![j].cmd = cmd,
                    ![j].calls = @ + run.calls,
                    ![j].rc = result.returncode,
                    ![j].pc = IF run.raised THEN "failed" ELSE "completed",
                    ![j].err = IF run.raised THEN "RuntimeError" ELSE NoError]
  /\ UNCHANGED <<rows, next_pk, arg, res, authVars>>

\* ------------------------------------------------------------------------
\* The job extract_thumbnail(video_id, source), one action per call
\* ------------------------------------------------------------------------
\* output_path = _thumbnail_output_path(source)
ThumbnailPath(j) ==
  /\ jobs[j].func = "extract_thumbnail"
  /\ CanStart(j)
  /\ LET r == _thumbnail_output_path(fs, jobs[j].source)
     IN /\ fs' = r.fs
        /\ jobs' = IF r.err # NoError
                     THEN [jobs EXCEPT ![j].pc = "failed", ![j].err = r.err]
                     ELSE [jobs EXCEPT ![j].pc = "run", ![j].output = r.ret]
  /\ UNCHANGED <<rows, next_pk, arg, res, authVars>>

Mut_ThumbnailRun_swallows_error(j) ==
  /\ jobs[j].func = "extract_thumbnail"
  /\ jobs[j].pc = "run"
  /\ \E result \in FfmpegRuns(fs, jobs[j].source, <<jobs[j].output>>, FALSE) :
       /\ fs' = result.fs
       /\ jobs' = [jobs EXCEPT
              ![j].cmd = ThumbnailCmd(jobs[j].source, jobs[j].output),
              ![j].calls = @ + 1,
              ![j].rc = result.returncode,
              ![j].pc = "update"]
  /\ UNCHANGED <<rows, next_pk, arg, res, authVars>>

\* _run_ffmpeg(cmd)
ThumbnailRun(j) ==
  /\ jobs[j].func = "extract_thumbnail"
  /\ jobs[j].pc = "run"
  /\ \E result \in FfmpegRuns(fs, jobs[j].source, <<jobs[j].output>>, FALSE) :
       LET run == _run_ffmpeg(result)
       IN /\ fs' = result.fs
          /\ jobs' = [jobs EXCEPT
                 ![j].cmd = ThumbnailCmd(jobs[j].source, jobs[j].output),
                 ![j].calls = @ + run.calls,
                 ![j].rc = result.returncode,
                 ![j].pc = IF run.raised THEN "failed" ELSE "update",
                 ![j].err = IF run.raised THEN "RuntimeError" ELSE NoError]
  /\ UNCHANGED <<rows, next_pk, arg, res, authVars>>

Mut_ThumbnailUpdate_all_rows(j) ==
  /\ jobs[j].func = "extract_thumbnail"
  /\ jobs[j].pc = "update"
  /\ rows' = [pk \in DOMAIN rows |->
                [rows[pk] EXCEPT !.thumbnail_url = _thumbnail_url(jobs[j].output)]]
  /\ jobs' = [jobs EXCEPT ![j].pc = "completed"]
  /\ UNCHANGED <<next_pk, fs, arg, res, authVars>>

\* Video.objects.filter(pk=video_id).update(thumbnail_url=...)
ThumbnailUpdate(j) ==
  /\ jobs[j].func = "extract_thumbnail"
  /\ jobs[j].pc = "update"
  /\ rows' = [pk \in DOMAIN rows |->
                IF pk = jobs[j].video_id
                  THEN [rows[pk] EXCEPT
                          !.thumbnail_url = _thumbnail_url(jobs[j].output)]
                  ELSE rows[pk]]
  /\ jobs' = [jobs EXCEPT ![j].pc = "completed"]
  /\ UNCHANGED <<next_pk, fs, arg, res, authVars>>

\* ------------------------------------------------------------------------
\* The system: uploads, saves and deletes, and the workers of the queue
\* ------------------------------------------------------------------------
NoArg == [op |-> "none"]

Init ==
  /\ rows = <<>>
  /\ next_pk = 1
  /\ fs = [dirs |-> {<<SEP, "data">>, MEDIA_ROOT}, files |-> {}]
  /\ jobs = <<>>
  /\ arg = NoArg
  /\ res = <<>>
  /\ AuthIdle

Next ==
  \/ \E name \in UploadNames, title \in Titles : CreateVideo(name, title)
  \/ \E pk \in DOMAIN rows, title \in EditedTitles : UpdateVideo(pk, title)
  \/ \E pk \in DOMAIN rows : DeleteVideo(pk)
  \/ \E j \in JobIds : ConvertHasAudio(j)
  \/ \E j \in JobIds : ConvertPrepare(j)
  \/ \E j \in JobIds : ConvertRun(j)
  \/ \E j \in JobIds : ThumbnailPath(j)
  \/ \E j \in JobIds : ThumbnailRun(j)
  \/ \E j \in JobIds : ThumbnailUpdate(j)

Spec == Init /\ [][Next]_vars

\* ------------------------------------------------------------------------
\* content_app/api/views.py
\* ------------------------------------------------------------------------
\* The file a path names: the components are looked up one after the
\* other, each in the directory reached so far, as open() and
\* os.path.isfile do.  A relative path starts in the working directory.
NoPath == <<"?">>

RECURSIVE Walk(_, _, _)
Walk(fs0, cur, comps) ==
  IF comps = <<>> THEN cur
  ELSE IF cur # <<>> /\ ~IsDir(fs0, cur) THEN NoPath
  ELSE LET c == Head(comps)
       IN IF c = <<>> \/ c = CURDIR THEN Walk(fs0, cur, Tail(comps))
          ELSE IF c = PARDIR THEN Walk(fs0, Dirname(cur), Tail(comps))
          ELSE Walk(fs0, Join2(cur, c), Tail(comps))

Resolve(fs0, path) ==
  IF path = <<>> THEN NoPath
  ELSE Walk(fs0, IF StartsWith(path, SEP) THEN <<SEP>> ELSE <<>>,
            SplitOn(path, SEP))

\* Response({"detail": message}, status=...): no file is opened.
_not_found_response(message) ==
  [status |-> 404, detail |-> message, opened |-> {}]

_bad_request_response(message) ==
  [status |-> 400, detail |-> message, opened |-> {}]

\* _get_video_or_response: the row, or none.
NoVideo == [video_file |-> <<>>]

_get_video_or_response(table, movie_id) ==
  IF movie_id \in DOMAIN table THEN table[movie_id] ELSE NoVideo

_hls_dir_for_video(video) ==
  LET base_dir == Dirname(video.video_file)
      base_name == Splitext(Basename(video.video_file))[1]
  IN Join2(base_dir, base_name \o <<"_hls">>)

\* _manifest_path
_manifest_path(hls_dir, resolution) ==
  IF resolution = <<"master">> THEN Join2(hls_dir, <<"master", DOT, "m3u8">>)
  ELSE Join3(hls_dir, resolution, <<"playlist", DOT, "m3u8">>)

_segment_path(hls_dir, resolution, segment) == Join3(hls_dir, resolution, segment)

Mut_segment_is_valid_suffix_only(segment) ==
  Len(segment) >= 2 /\ From(segment, Len(segment) - 2) = <<DOT, "ts">>

\* _segment_is_valid
_segment_is_valid(segment) ==
  /\ Basename(segment) = segment
  /\ Len(segment) >= 2 /\ From(segment, Len(segment) - 2) = <<DOT, "ts">>

\* _file_response_or_missing: FileResponse(open(path, "rb")) when the path
\* names a regular file.
_file_response_or_missing(fs0, path, missing_message) ==
  IF ~IsFile(fs0, Resolve(fs0, path))
    THEN _not_found_response(missing_message)
    ELSE [status |-> 200, detail |-> "file", opened |-> {Resolve(fs0, path)}]

\* VideoHlsSegmentAPIView.get
VideoHlsSegmentAPIView_get(table, fs0, movie_id, resolution, segment) ==
  IF ~_segment_is_valid(segment)
    THEN _bad_request_response("Invalid segment name.")
  ELSE IF movie_id \notin DOMAIN table
    THEN _not_found_response("Video not found.")
  ELSE LET video == _get_video_or_response(table, movie_id)
           hls_dir == _hls_dir_for_video(video)
           segment_path == _segment_path(hls_dir, resolution, segment)
       IN _file_response_or_missing(fs0, segment_path, "HLS segment not found.")

\* VideoHlsManifestAPIView.get
VideoHlsManifestAPIView_get(table, fs0, movie_id, resolution) ==
  IF movie_id \notin DOMAIN table
    THEN _not_found_response("Video not found.")
  ELSE LET video == _get_video_or_response(table, movie_id)
           hls_dir == _hls_dir_for_video(video)
           manifest_path == _manifest_path(hls_dir, resolution)
       IN _file_response_or_missing(fs0, manifest_path, "HLS manifest not found.")

\* ------------------------------------------------------------------------
\* The functions of tasks.py applied on their own: the input is drawn
\* from a bounded set, and the function is applied to it up to MaxCalls
\* times, each application on the filesystem the one before it left.
\* ------------------------------------------------------------------------
SeqsUpTo(atoms, n) == UNION {[1..k -> atoms] : k \in 0..n}

PathAtoms == {SEP, DOT, "a", "b"}
PathStrings == SeqsUpTo(PathAtoms, MaxPathLen)

EmptyFs == [dirs |-> {}, files |-> {}]

\* Sources given with a filesystem: an upload, a file in the root
\* directory and a file in the working directory.
FsSources ==
  { VideoFilePath(<<"clip", DOT, "mp4">>),
    <<SEP, "clip", DOT, "mp4">>,
    <<"clip", DOT, "mp4">> }

\* The proper ancestors of a path that are not the root.
Ancestors(p) ==
  {Upto(p, i - 1) : i \in {k \in 2..Len(p) : p[k] = SEP}}

\* The filesystems around a source: its directory is there or not, and
\* at the place of the output directory and of each variant directory is
\* nothing, a directory or a file.
EntryKinds == {"absent", "dir", "file"}

FsAround(source) ==
  LET out == Join2(Dirname(source), Splitext(Basename(source))[1] \o <<"_hls">>)
      sub(i) == Join2(out, <<Variants[i]>>)
      base == Ancestors(out)
      N == Len(Variants)
      choices ==
        {c \in [parent : BOOLEAN, o : EntryKinds, other : BOOLEAN,
                v : [1..N -> EntryKinds]] :
           /\ c.v[2] # "file"
           /\ (\E k \in 1..N : c.v[k] # "absent") => c.o = "dir"
           /\ c.other => c.o = "dir"
           /\ c.o # "absent" => c.parent}
  IN { [dirs |-> (IF c.parent THEN base ELSE {})
                   \cup (IF c.o = "dir" THEN {out} ELSE {})
                   \cup {sub(i) : i \in {k \in 1..N : c.v[k] = "dir"}}
                   \cup (IF c.other THEN {Join2(out, <<"old">>)} ELSE {}),
        files |-> (IF c.o = "file" THEN {out} ELSE {})
                   \cup {sub(i) : i \in {k \in 1..N : c.v[k] = "file"}}] :
        c \in choices }

FnRetCodes == {0, 1, 255, -9}
OutputAtoms == {" ", "\n", "1"}
ErrorAtoms == {" ", "\n", "Error"}

\* Settings with and without slashes at the ends of the two URL settings
\* and of the media root.
SettingsChoices ==
  [MEDIA_ROOT : {MEDIA_ROOT, MEDIA_ROOT \o <<SEP>>, <<SEP, "srv">>},
   MEDIA_URL : {MEDIA_URL, Tail(MEDIA_URL), <<SEP>> \o MEDIA_URL, <<>>},
   MEDIA_BASE_URL : {MEDIA_BASE_URL, MEDIA_BASE_URL \o <<SEP>>,
                     MEDIA_BASE_URL \o <<SEP, SEP>>, <<>>}]

\* Names of thumbnails below the media root.
ThumbnailNames ==
  { <<"thumbnail", SEP, "clip", DOT, "jpg">>,
    <<"clip", DOT, "jpg">>,
    <<"thumbnail", SEP, "a", "\\", "b", DOT, "jpg">>,
    <<"thumbnail", SEP, DOT, "clip", DOT, "jpg">> }

\* Segment names: every string of a few atoms, and the names of the
\* docstring of _segment_is_valid.
SegmentAtoms == {SEP, DOT, "ts", "s"}

SegmentExamples ==
  { <<"segment_001", DOT, "ts">>,
    <<DOT, DOT, SEP, "secret", DOT, "txt">>,
    <<"sub", SEP, "segment", DOT, "ts">>,
    <<"segment", DOT, "m4s">> }

SegmentNames == SeqsUpTo(SegmentAtoms, MaxPathLen) \cup SegmentExamples

\* A Video table and a filesystem for the requests of the HLS views: the
\* upload clip.mp4 with its HLS output, and a file that is no HLS output.
ServedSource == VideoFilePath(<<"clip", DOT, "mp4">>)

ServedRows ==
  (1 :> [title |-> "t1", thumbnail_url |-> NoUrl, video_file |-> ServedSource])

ServedFs ==
  LET up == MakeDirs([dirs |-> {}, files |-> {}], Dirname(ServedSource)).fs
      hls == _prepare_hls_dirs(up, ServedSource)
      out == ToolWrite(hls.fs,
                       HlsOutputs(hls.ret)
                         \o << Join3(hls.ret, <<"480p">>, <<"s", DOT, "ts">>),
                               Join3(hls.ret, <<"480p">>, <<"segment_001", DOT, "ts">>),
                               Join2(hls.ret, <<"secret", DOT, "txt">>),
                               Join2(Dirname(ServedSource), <<"s", DOT, "ts">>),
                               Join2(Dirname(ServedSource),
                                     <<"playlist", DOT, "m3u8">>),
                               Join2(MEDIA_ROOT, <<"secret", DOT, "txt">>) >>,
                       FALSE).fs
  IN [out EXCEPT !.files = @ \cup {ServedSource}]

Resolutions == { <<"480p">>, <<"720p">>, <<DOT>>, <<DOT, DOT>>, <<"master">> }

FnArgs ==
  {[op |-> "_prepare_hls_dirs", fs |-> EmptyFs, source |-> p] : p \in PathStrings}
  \cup {[op |-> "_prepare_hls_dirs", fs |-> f, source |-> p] :
           f \in UNION {FsAround(q) : q \in FsSources}, p \in FsSources}
  \cup {[op |-> "_build_hls_cmd", source |-> p, output_dir |-> d, has_audio |-> b] :
           p \in SeqsUpTo(PathAtoms, 2), d \in SeqsUpTo(PathAtoms, 2),
           b \in BOOLEAN}
  \cup {[op |-> "_has_audio", probe |-> [returncode |-> rc, stdout |-> out]] :
           rc \in FnRetCodes, out \in SeqsUpTo(OutputAtoms, MaxOutputLen)}
  \cup {[op |-> "_run_ffmpeg", result |-> [returncode |-> rc, stderr |-> e]] :
           rc \in FnRetCodes, e \in SeqsUpTo(ErrorAtoms, MaxOutputLen)}
  \cup {[op |-> "_segment_is_valid", segment |-> g] : g \in SegmentNames}
  \cup {[op |-> "VideoHlsSegmentAPIView.get", rows |-> t, fs |-> f,
          movie_id |-> m, resolution |-> r, segment |-> g] :
           t \in {<<>>, ServedRows}, f \in {EmptyFs, ServedFs}, m \in {1},
           r \in Resolutions,
           g \in SeqsUpTo(SegmentAtoms, 3) \cup SegmentExamples}
  \cup {[op |-> "VideoHlsManifestAPIView.get", rows |-> t, fs |-> f,
          movie_id |-> m, resolution |-> r] :
           t \in {<<>>, ServedRows}, f \in {EmptyFs, ServedFs}, m \in {1},
           r \in Resolutions}
  \cup {[op |-> "_thumbnail_url", settings |-> c, relative |-> r,
          output_path |-> Join2(c.MEDIA_ROOT, r)] :
           c \in SettingsChoices, r \in ThumbnailNames}

\* The filesystem the next application runs on.
CurFs == IF res = <<>> THEN arg.fs ELSE res[Len(res)].fs

Apply_prepare_hls_dirs ==
  /\ arg.op = "_prepare_hls_dirs"
  /\ Len(res) < MaxCalls
  /\ res' = Append(res, _prepare_hls_dirs(CurFs, arg.source))
  /\ UNCHANGED <<rows, next_pk, fs, jobs, arg, authVars>>

Mut_Apply_build_hls_cmd_overwrites_on_rerun ==
  /\ arg.op = "_build_hls_cmd"
  /\ Len(res) < MaxCalls
  /\ LET cmd == _build_hls_cmd(arg.source, arg.output_dir, arg.has_audio)
     IN res' = Append(res, [ret |-> IF res = <<>> THEN cmd
                                    ELSE <<cmd[1], <<"-y">> >> \o Tail(cmd)])
  /\ UNCHANGED <<rows, next_pk, fs, jobs, arg, authVars>>

Apply_build_hls_cmd ==
  /\ arg.op = "_build_hls_cmd"
  /\ Len(res) < MaxCalls
  /\ res' = Append(res, [ret |-> _build_hls_cmd(arg.source, arg.output_dir,
                                                arg.has_audio)])
  /\ UNCHANGED <<rows, next_pk, fs, jobs, arg, authVars>>

Apply_has_audio ==
  /\ arg.op = "_has_audio"
  /\ Len(res) < MaxCalls
  /\ res' = Append(res, [ret |-> _has_audio(arg.probe)])
  /\ UNCHANGED <<rows, next_pk, fs, jobs, arg, authVars>>

Apply_run_ffmpeg ==
  /\ arg.op = "_run_ffmpeg"
  /\ Len(res) < MaxCalls
  /\ res' = Append(res, _run_ffmpeg(arg.result))
  /\ UNCHANGED <<rows, next_pk, fs, jobs, arg, authVars>>

Apply_segment_is_valid ==
  /\ arg.op = "_segment_is_valid"
  /\ Len(res) < MaxCalls
  /\ res' = Append(res, [ret |-> _segment_is_valid(arg.segment)])
  /\ UNCHANGED <<rows, next_pk, fs, jobs, arg, authVars>>

\* A GET of the segment endpoint by an authenticated client.
Apply_VideoHlsSegmentAPIView_get ==
  /\ arg.op = "VideoHlsSegmentAPIView.get"
  /\ Len(res) < MaxCalls
  /\ res' = Append(res, VideoHlsSegmentAPIView_get(arg.rows, arg.fs, arg.movie_id,
                                                   arg.resolution, arg.segment))
  /\ UNCHANGED <<rows, next_pk, fs, jobs, arg, authVars>>

\* A GET of the manifest endpoint by an authenticated client.
Apply_VideoHlsManifestAPIView_get ==
  /\ arg.op = "VideoHlsManifestAPIView.get"
  /\ Len(res) < MaxCalls
  /\ res' = Append(res, VideoHlsManifestAPIView_get(arg.rows, arg.fs, arg.movie_id,
                                                    arg.resolution))
  /\ UNCHANGED <<rows, next_pk, fs, jobs, arg, authVars>>

Apply_thumbnail_url ==
  /\ arg.op = "_thumbnail_url"
  /\ Len(res) < MaxCalls
  /\ res' = Append(res, [ret |-> _thumbnail_url_with(arg.settings,
                                                     arg.output_path)])
  /\ UNCHANGED <<rows, next_pk, fs, jobs, arg, authVars>>

InitFn ==
  /\ rows = <<>>
  /\ next_pk = 1
  /\ fs = EmptyFs
  /\ jobs = <<>>
  /\ arg \in FnArgs
  /\ res = <<>>
  /\ AuthIdle

NextFn ==
  \/ Apply_prepare_hls_dirs
  \/ Apply_build_hls_cmd
  \/ Apply_has_audio
  \/ Apply_run_ffmpeg
  \/ Apply_segment_is_valid
  \/ Apply_VideoHlsSegmentAPIView_get
  \/ Apply_VideoHlsManifestAPIView_get
  \/ Apply_thumbnail_url

SpecFn == InitFn /\ [][NextFn]_vars

\* ------------------------------------------------------------------------
\* auth_app/utils/activation.py
\*
\* A uid or a token is a sequence of atoms.  The characters '=', '-', '_',
\* '!' and the whitespace characters are atoms of their own, and so is the
\* pair of characters '3D'; every other atom is a run of letters and
\* digits that does not start with '3D'.
\* ------------------------------------------------------------------------
\* str.replace(old, new): the occurrences of old are replaced from left to
\* right, without overlap.
RECURSIVE ReplaceSeq(_, _, _)
ReplaceSeq(s, old, new) ==
  IF Len(s) < Len(old) THEN s
  ELSE IF SubSeq(s, 1, Len(old)) = old
    THEN new \o ReplaceSeq(From(s, Len(old)), old, new)
  ELSE <<Head(s)>> \o ReplaceSeq(Tail(s), old, new)

\* while value.startswith("3D"): value = value[2:]
RECURSIVE Drop3D(_)
Drop3D(value) ==
  IF StartsWith(value, "3D") THEN Drop3D(Tail(value)) ELSE value

\* _decode_qp_artifacts
_decode_qp_artifacts(value) ==
  LET v1 == ReplaceSeq(ReplaceSeq(value, <<"=", "\r", "\n">>, <<>>),
                       <<"=", "\n">>, <<>>)
      v2 == ReplaceSeq(v1, <<"=", "3D">>, <<"=">>)
  IN Strip(Drop3D(v2))

\* The atoms _UID_RE ([^A-Za-z0-9_-]) and _TOKEN_RE ([^A-Za-z0-9-]) leave.
Punctuation == Whitespace \cup {"=", "!", SEP, DOT}
UidAtom(a) == a \notin Punctuation
TokenAtom(a) == a \notin Punctuation \cup {"_"}

\* sanitize_uid
sanitize_uid(value) ==
  LET kept == SelectSeq(_decode_qp_artifacts(value), UidAtom)
  IN LStripSet(RStripSet(kept, {"="}), {"="})

\* sanitize_token
sanitize_token(value) == SelectSeq(_decode_qp_artifacts(value), TokenAtom)

\* urlsafe_base64_encode of the decimal digits of a user id, for the ids
\* 1 to 9.
Base64OfId == <<"MQ", "Mg", "Mw", "NA", "NQ", "Ng", "Nw", "OA", "OQ">>

\* encode_uid
encode_uid(user_id) == <<Base64OfId[user_id]>>

\* decode_uid: the id, or ValueError for what is not the base64 of a
\* decimal number.
decode_uid(uidb64) ==
  LET ids == {n \in DOMAIN Base64OfId : uidb64 = <<Base64OfId[n]>>}
  IN IF ids = {} THEN [err |-> "ValueError", ret |-> 0]
     ELSE [err |-> NoError, ret |-> CHOOSE n \in ids : TRUE]

\* PasswordResetTokenGenerator.make_token(user): a timestamp, '-', and a
\* keyed hash of the user's primary key, stored password, last login,
\* email and the timestamp.  The stored password is the only one of
\* these that changes, and it is new with every set_password, so the
\* hash is named by the primary key and the number of passwords set.
make_token(pk, user) ==
  <<"ts", "-", "h" \o ToString(pk) \o "p" \o ToString(user.password.salt)>>

\* PasswordResetTokenGenerator.check_token(user, token); expired says
\* whether more than PASSWORD_RESET_TIMEOUT has passed since the token was
\* made.
check_token(pk, user, token, expired) ==
  token # <<>> /\ token = make_token(pk, user) /\ ~expired

\* User.objects.get(pk=user_id)
NoUser == 0

GetUser(table, user_id) ==
  IF user_id \in DOMAIN table THEN user_id ELSE NoUser

Mut_activate_user_skips_token_check(table, uidb64_in, token_in, expired) ==
  LET uidb64 == sanitize_uid(uidb64_in)
      decoded == decode_uid(uidb64)
      pk == IF decoded.err = NoError THEN GetUser(table, decoded.ret) ELSE NoUser
  IN IF pk = NoUser
       THEN [user |-> NoUser, error |-> "Invalid activation link.",
             users |-> table, raised |-> NoError]
     ELSE [user |-> pk, error |-> "None",
           users |-> [table EXCEPT ![pk].is_active = TRUE],
           raised |-> NoError]

\* activate_user: the returned pair, and the User table it leaves.
activate_user(table, uidb64_in, token_in, expired) ==
  LET uidb64 == sanitize_uid(uidb64_in)
      token == sanitize_token(token_in)
      decoded == decode_uid(uidb64)
      pk == IF decoded.err = NoError THEN GetUser(table, decoded.ret) ELSE NoUser
  IN IF pk = NoUser
       THEN [user |-> NoUser, error |-> "Invalid activation link.",
             users |-> table, raised |-> NoError]
     ELSE IF ~check_token(pk, table[pk], token, expired)
       THEN [user |-> NoUser, error |-> "Invalid or expired token.",
             users |-> table, raised |-> NoError]
     ELSE [user |-> pk, error |-> "None",
           users |-> IF ~table[pk].is_active
                       THEN [table EXCEPT ![pk].is_active = TRUE]
                       ELSE table,
           raised |-> NoError]

\* ------------------------------------------------------------------------
\* The User table, request values and responses of the auth API
\* ------------------------------------------------------------------------
\* A value of the JSON body of a request: null, a string, or a number
\* given by its digits.
Null == [type |-> "null"]
Str(s) == [type |-> "str", value |-> s]
Num(n) == [type |-> "int", value |-> <<ToString(n)>>]

\* Python's 'value or ""'.
OrEmpty(v) ==
  IF v.type = "null" \/ v = Num(0) THEN Str(<<>>) ELSE v

\* email__iexact compares without regard to case.
Lower(email) ==
  [i \in 1..Len(email) |-> IF email[i] = "A@x" THEN "a@x" ELSE email[i]]

\* QuerySet.first(): the match with the least primary key, or none.
FirstUser(table, Matches(_)) ==
  LET found == {pk \in DOMAIN table : Matches(table[pk])}
  IN IF found = {} THEN NoUser
     ELSE CHOOSE pk \in found : \A other \in found : pk <= other

\* set_password stores the password under a salt that was never used
\* before; check_password compares with what was stored.
set_password(user, raw_password) ==
  [user EXCEPT !.password = [raw |-> raw_password, salt |-> @.salt + 1]]

check_password(user, raw_password) == user.password.raw = raw_password

\* A cookie of a request is absent, or holds a refresh token, an access
\* token, the empty string or something that is no token.
NoCookie == [type |-> "absent"]
EmptyCookie == [type |-> "empty"]
JunkCookie == [type |-> "junk"]
RefreshTokenOf(jti) == [type |-> "refresh", jti |-> jti]
AccessTokenOf(jti) == [type |-> "access", jti |-> jti]

\* RefreshToken(token): the token verifies when it is a refresh token this
\* server issued, has not expired and is not blacklisted.
RefreshTokenVerifies(cookie, expired) ==
  /\ cookie.type = "refresh"
  /\ cookie.jti \in DOMAIN outstanding
  /\ ~expired
  /\ cookie.jti \notin blacklist

\* response.set_cookie(key, value, httponly=True, secure=not DEBUG,
\* samesite='Lax')
SetCookie(key, value, debug) ==
  [key |-> key, value |-> value, httponly |-> TRUE, secure |-> ~debug,
   samesite |-> "Lax"]

NoMail == [to |-> <<>>, uid |-> <<>>, token |-> <<>>]

\* A response without cookies and without mail.
Response(op, req, code, detail) ==
  [op |-> op, req |-> req, status |-> code, detail |-> detail,
   raised |-> NoError, set_cookies |-> {}, deleted_cookies |-> {},
   mail |-> NoMail]

\* An exception that leaves the view: the server answers 500.
Raised(op, req, exception) ==
  [Response(op, req, 500, "Server Error") EXCEPT !.raised = exception]

\* ------------------------------------------------------------------------
\* auth_app/api/serializers.py
\* ------------------------------------------------------------------------
\* RegisterSerializer._generate_username: the slug of the local part of the
\* email, with the first free suffix from 2 on when it is taken.
LocalSlug(email) == IF Lower(email) = <<"a@x">> THEN "a" ELSE "user"

_generate_username(table, email) ==
  LET base == LocalSlug(email)
      taken(name) == \E pk \in DOMAIN table : table[pk].username = name
      free == {k \in 2..(Len(table) + 2) : ~taken(base \o ToString(k))}
  IN IF ~taken(base) THEN base
     ELSE base \o ToString(CHOOSE k \in free : \A other \in free : k <= other)

\* RegisterSerializer.validate: the error, or none.
RegisterSerializer_validate(table, attrs) ==
  IF attrs.password # attrs.confirmed_password
    THEN "Passwords do not match."
  ELSE IF \E pk \in DOMAIN table : table[pk].email = attrs.email
    THEN "Please check your entries and try again."
  ELSE "None"

\* RegisterSerializer.create: the new row.
RegisterSerializer_create(table, validated_data) ==
  set_password([email |-> validated_data.email,
                username |-> _generate_username(table, validated_data.email),
                password |-> [raw |-> <<>>, salt |-> 0],
                is_active |-> FALSE],
               validated_data.password)

Mut_TokenObtainPair_validate_any_user(table, attrs) ==
  LET matches(u) == Lower(u.email) = Lower(attrs.email)
      user == FirstUser(table, matches)
  IN IF attrs.email = <<>> \/ attrs.password = <<>>
       THEN [user |-> NoUser, error |-> "Email and password are required."]
     ELSE IF user = NoUser \/ ~check_password(table[user], attrs.password)
       THEN [user |-> NoUser,
             error |-> "No active account found with the given credentials."]
     ELSE [user |-> user, error |-> "None"]

\* CustomTokenObtainPairSerializer.validate: the user the tokens are for,
\* or the validation error.
CustomTokenObtainPairSerializer_validate(table, attrs) ==
  LET matches(u) == Lower(u.email) = Lower(attrs.email)
      user == FirstUser(table, matches)
  IN IF attrs.email = <<>> \/ attrs.password = <<>>
       THEN [user |-> NoUser, error |-> "Email and password are required."]
     ELSE IF user = NoUser \/ ~check_password(table[user], attrs.password)
       THEN [user |-> NoUser,
             error |-> "No active account found with the given credentials."]
     ELSE IF ~table[user].is_active
       THEN [user |-> NoUser, error |-> "Account is not active."]
     ELSE [user |-> user, error |-> "None"]

\* ------------------------------------------------------------------------
\* auth_app/api/views.py, one action per request
\* ------------------------------------------------------------------------
\* RegisterView.post: the mail is sent after the user was saved; when the
\* sending fails the exception leaves the view.
RegisterView_post(email, password, confirmed_password, mail_ok) ==
  LET req == [email |-> email, password |-> password,
              confirmed_password |-> confirmed_password]
      error == RegisterSerializer_validate(users, req)
      user == RegisterSerializer_create(users, req)
      pk == Len(users) + 1
  IN /\ Len(users) < MaxUsers
     /\ IF error # "None"
          THEN /\ resp' = Response("register", req, 400, error)
               /\ UNCHANGED users
          ELSE /\ users' = Append(users, user)
               /\ resp' = IF mail_ok
                            THEN [Response("register", req, 201, "created")
                                    EXCEPT !.mail = [to |-> email,
                                                     uid |-> encode_uid(pk),
                                                     token |-> make_token(pk, user)]]
                            ELSE Raised("register", req, "SMTPException")
     /\ UNCHANGED <<rows, next_pk, fs, jobs, arg, res,
                    outstanding, blacklist, activated>>

\* ActivateAccountView.get
ActivateAccountView_get(uidb64, token, expired) ==
  LET req == [uidb64 |-> uidb64, token |-> token, expired |-> expired]
      r == activate_user(users, uidb64, token, expired)
  IN /\ users' = r.users
     /\ activated' = IF r.user # NoUser THEN activated \cup {r.user} ELSE activated
     /\ resp' = IF r.error # "None"
                  THEN Response("activate", req, 400, r.error)
                  ELSE Response("activate", req, 200,
                                "Account successfully activated.")
     /\ UNCHANGED <<rows, next_pk, fs, jobs, arg, res, outstanding, blacklist>>

\* CookieTokenObtainPairView.post: a validation error of the serializer is
\* answered with 400 before any cookie is set.
CookieTokenObtainPairView_post(email, password, debug) ==
  LET req == [email |-> email, password |-> password, debug |-> debug]
      r == CustomTokenObtainPairSerializer_validate(users, req)
      jti == Len(outstanding) + 1
  IN /\ IF r.error # "None"
          THEN /\ resp' = Response("login", req, 400, r.error)
               /\ UNCHANGED outstanding
          ELSE /\ Len(outstanding) < MaxTokens
               /\ outstanding' = Append(outstanding, r.user)
               /\ resp' = [Response("login", req, 200, "Login successful!")
                             EXCEPT !.set_cookies =
                               {SetCookie("access_token", AccessTokenOf(jti), debug),
                                SetCookie("refresh_token", RefreshTokenOf(jti), debug)}]
     /\ UNCHANGED <<rows, next_pk, fs, jobs, arg, res, users, blacklist, activated>>

Mut_LogoutCookieView_post_keeps_token(authenticated, refresh_token, expired) ==
  LET req == [authenticated |-> authenticated, refresh_token |-> refresh_token,
              expired |-> expired]
  IN /\ IF ~authenticated
          THEN /\ resp' = Response("logout", req, 401, "Not authenticated.")
               /\ UNCHANGED blacklist
        ELSE IF refresh_token \in {NoCookie, EmptyCookie}
          THEN /\ resp' = Response("logout", req, 400, "Refresh token not found!")
               /\ UNCHANGED blacklist
        ELSE IF ~RefreshTokenVerifies(refresh_token, expired)
          THEN /\ resp' = Raised("logout", req, "TokenError")
               /\ UNCHANGED blacklist
        ELSE /\ UNCHANGED blacklist
             /\ resp' = [Response("logout", req, 200, "Logout successful!")
                           EXCEPT !.deleted_cookies =
                             {"access_token", "refresh_token"}]
     /\ UNCHANGED <<rows, next_pk, fs, jobs, arg, res, users, outstanding, activated>>

\* LogoutCookieView.post, behind the permission IsAuthenticated.  A cookie
\* that does not verify makes RefreshToken(...) raise TokenError, which
\* the view does not catch.
LogoutCookieView_post(authenticated, refresh_token, expired) ==
  LET req == [authenticated |-> authenticated, refresh_token |-> refresh_token,
              expired |-> expired]
  IN /\ IF ~authenticated
          THEN /\ resp' = Response("logout", req, 401, "Not authenticated.")
               /\ UNCHANGED blacklist
        ELSE IF refresh_token \in {NoCookie, EmptyCookie}
          THEN /\ resp' = Response("logout", req, 400, "Refresh token not found!")
               /\ UNCHANGED blacklist
        ELSE IF ~RefreshTokenVerifies(refresh_token, expired)
          THEN /\ resp' = Raised("logout", req, "TokenError")
               /\ UNCHANGED blacklist
        ELSE /\ blacklist' = blacklist \cup {refresh_token.jti}
             /\ resp' = [Response("logout", req, 200, "Logout successful!")
                           EXCEPT !.deleted_cookies =
                             {"access_token", "refresh_token"}]
     /\ UNCHANGED <<rows, next_pk, fs, jobs, arg, res, users, outstanding, activated>>

Mut_CookieRefreshView_post_rotates(refresh_token, expired, debug) ==
  LET req == [refresh_token |-> refresh_token, expired |-> expired,
              debug |-> debug]
  IN /\ resp' = IF refresh_token = NoCookie
                  THEN Response("refresh", req, 400, "Refresh token not found!")
                ELSE IF ~RefreshTokenVerifies(refresh_token, expired)
                  THEN Response("refresh", req, 401, "Refresh token invalid!")
                ELSE [Response("refresh", req, 200, "Token refreshed")
                        EXCEPT !.set_cookies =
                          {SetCookie("access_token",
                                     AccessTokenOf(refresh_token.jti), debug),
                           SetCookie("refresh_token", refresh_token, debug)}]
     /\ UNCHANGED <<rows, next_pk, fs, jobs, arg, res,
                    users, outstanding, blacklist, activated>>

\* CookieRefreshView.post
CookieRefreshView_post(refresh_token, expired, debug) ==
  LET req == [refresh_token |-> refresh_token, expired |-> expired,
              debug |-> debug]
  IN /\ resp' = IF refresh_token = NoCookie
                  THEN Response("refresh", req, 400, "Refresh token not found!")
                ELSE IF ~RefreshTokenVerifies(refresh_token, expired)
                  THEN Response("refresh", req, 401, "Refresh token invalid!")
                ELSE [Response("refresh", req, 200, "Token refreshed")
                        EXCEPT !.set_cookies =
                          {SetCookie("access_token",
                                     AccessTokenOf(refresh_token.jti), debug)}]
     /\ UNCHANGED <<rows, next_pk, fs, jobs, arg, res,
                    users, outstanding, blacklist, activated>>

\* PasswordResetRequestView.post
PasswordResetRequestView_post(email_in, mail_ok) ==
  LET req == [email |-> email_in]
      email == Strip(email_in)
      matches(u) == Lower(u.email) = Lower(email)
      user == FirstUser(users, matches)
  IN /\ resp' = IF email = <<>>
                  THEN Response("password_reset", req, 400, "Email is required.")
                ELSE IF user = NoUser
                  THEN Response("password_reset", req, 404,
                                "No account found with this email.")
                ELSE IF ~mail_ok
                  THEN Raised("password_reset", req, "SMTPException")
                ELSE [Response("password_reset", req, 200,
                               "An email has been sent to reset your password.")
                        EXCEPT !.mail = [to |-> users[user].email,
                                         uid |-> encode_uid(user),
                                         token |-> make_token(user, users[user])]]
     /\ UNCHANGED <<rows, next_pk, fs, jobs, arg, res,
                    users, outstanding, blacklist, activated>>

\* PasswordResetConfirmView.post.  '(value or "").strip()' raises
\* AttributeError for a value of the body that is true and no string.
PasswordResetConfirmView_post(uidb64_in, token_in, new_password_in, confirm_password_in, expired) ==
  LET req == [uidb64 |-> uidb64_in, token |-> token_in,
              new_password |-> new_password_in,
              confirm_password |-> confirm_password_in, expired |-> expired]
      uidb64 == sanitize_uid(uidb64_in)
      token == sanitize_token(token_in)
      new_value == OrEmpty(new_password_in)
      confirm_value == OrEmpty(confirm_password_in)
      new_password == Strip(new_value.value)
      confirm_password == Strip(confirm_value.value)
      decoded == decode_uid(uidb64)
      pk == IF decoded.err = NoError THEN GetUser(users, decoded.ret) ELSE NoUser
      bad(detail) == /\ resp' = Response("password_confirm", req, 400, detail)
                     /\ UNCHANGED users
  IN /\ IF new_value.type # "str" \/ confirm_value.type # "str"
          THEN /\ resp' = Raised("password_confirm", req, "AttributeError")
               /\ UNCHANGED users
        ELSE IF new_password = <<>> \/ confirm_password = <<>>
          THEN bad("New password and confirmation are required.")
        ELSE IF new_password # confirm_password
          THEN bad("Passwords do not match.")
        ELSE IF pk = NoUser
          THEN bad("Invalid reset link.")
        ELSE IF ~check_token(pk, users[pk], token, expired)
          THEN bad("Invalid or expired token.")
        ELSE /\ users[pk].password.salt <= MaxResets
             /\ users' = [users EXCEPT ![pk] = set_password(@, new_password)]
             /\ resp' = Response("password_confirm", req, 200,
                                 "Your Password has been successfully reset.")
     /\ UNCHANGED <<rows, next_pk, fs, jobs, arg, res,
                    outstanding, blacklist, activated>>

\* ------------------------------------------------------------------------
\* The auth API under the requests of its clients.  A client may send any
\* uid, token or cookie, whether or not the server ever made it.
\* ------------------------------------------------------------------------
Emails == { <<"a@x">>, <<"A@x">> }
RawPasswords == { <<"p1">>, <<"p2">> }

UidStrings ==
  {encode_uid(n) : n \in 1..(MaxUsers + 1)}
    \cup {encode_uid(1) \o <<"=">>, <<"!">>}

\* The tokens of every user under every password the user can have had,
\* one of them with an artifact of quoted-printable in front, and a string
\* that is no token.
UserTokens ==
  {make_token(pk, [password |-> [salt |-> n]]) :
     pk \in 1..MaxUsers, n \in 1..(MaxResets + 1)}

TokenStrings ==
  UserTokens
    \cup {<<"3D">> \o make_token(1, [password |-> [salt |-> 1]]), <<"bad">>}

Cookies ==
  {NoCookie, EmptyCookie, JunkCookie}
    \cup {RefreshTokenOf(jti) : jti \in 1..MaxTokens}
    \cup {AccessTokenOf(jti) : jti \in 1..MaxTokens}

\* The passwords of the body of a password reset: absent, empty, blank, a
\* password with and without whitespace around it, and a JSON number.
NewPasswords ==
  {Null, Str(<<>>), Str(<<" ">>), Str(<<"p2">>), Str(<<"p2", " ">>),
   Str(<<"p3">>), Num(123)}

ConfirmPasswords == {Null, Str(<<"p2">>), Num(123)}

InitAuth ==
  /\ rows = <<>>
  /\ next_pk = 1
  /\ fs = EmptyFs
  /\ jobs = <<>>
  /\ arg = NoArg
  /\ res = <<>>
  /\ AuthIdle

\* The response reaches the client.
DeliverResponse ==
  /\ resp # NoResp
  /\ resp' = NoResp
  /\ UNCHANGED <<rows, next_pk, fs, jobs, arg, res,
                 users, outstanding, blacklist, activated>>

\* The server has answered the request before and takes the next.
Idle == resp = NoResp

NextAuth ==
  \/ \E email \in Emails, confirmed_password \in RawPasswords, mail_ok \in BOOLEAN :
       Idle /\ RegisterView_post(email, <<"p1">>, confirmed_password, mail_ok)
  \/ \E uidb64 \in UidStrings, token \in TokenStrings, expired \in BOOLEAN :
       Idle /\ ActivateAccountView_get(uidb64, token, expired)
  \/ \E email \in Emails \cup {<<>>}, password \in RawPasswords, debug \in BOOLEAN :
       Idle /\ CookieTokenObtainPairView_post(email, password, debug)
  \/ \E authenticated \in BOOLEAN, refresh_token \in Cookies, expired \in BOOLEAN :
       Idle /\ LogoutCookieView_post(authenticated, refresh_token, expired)
  \/ \E refresh_token \in Cookies, expired \in BOOLEAN, debug \in BOOLEAN :
       Idle /\ CookieRefreshView_post(refresh_token, expired, debug)
  \/ \E email \in Emails \cup {<<>>, <<" ", "a@x">>}, mail_ok \in BOOLEAN :
       Idle /\ PasswordResetRequestView_post(email, mail_ok)
  \/ \E uidb64 \in UidStrings, token \in TokenStrings,
        new_password \in NewPasswords, confirm_password \in ConfirmPasswords,
        expired \in BOOLEAN :
       Idle /\ PasswordResetConfirmView_post(uidb64, token, new_password,
                                             confirm_password, expired)
  \/ DeliverResponse

SpecAuth == InitAuth /\ [][NextAuth]_vars

\* ------------------------------------------------------------------------
\* auth_app/utils/authentication.py
\*
\* A header or a cookie is absent or holds a string; a string is a
\* sequence of atoms, where a whitespace character is an atom of its own
\* and adjacent atoms that are no whitespace make one word.
\* ------------------------------------------------------------------------
Absent == [set |-> FALSE, value |-> <<>>]
Some(v) == [set |-> TRUE, value |-> v]

\* bytes.split(): the words between the runs of whitespace.
RECURSIVE SplitFrom(_, _)
SplitFrom(s, word) ==
  IF s = <<>> THEN word
  ELSE IF Head(s) \in Whitespace THEN word \o SplitFrom(Tail(s), <<>>)
  ELSE SplitFrom(Tail(s), IF word = <<>> THEN <<Head(s)>>
                          ELSE <<word[1] \o Head(s)>>)

SplitWords(s) == SplitFrom(s, <<>>)

\* JWTAuthentication.get_raw_token: None for an empty header or another
\* scheme, AuthenticationFailed unless there are two words.
get_raw_token(header) ==
  LET parts == SplitWords(header)
  IN IF Len(parts) = 0 THEN [raised |-> NoError, ret |-> Absent]
     ELSE IF parts[1] # "Bearer" THEN [raised |-> NoError, ret |-> Absent]
     ELSE IF Len(parts) # 2
       THEN [raised |-> "AuthenticationFailed", ret |-> Absent]
     ELSE [raised |-> NoError, ret |-> Some(<<parts[2]>>)]

\* What the tokens that decode hold: the type, the user and whether the
\* token has expired.  Every other string is no token.
TokenClaims ==
  [acc1 |-> [token_type |-> "access", user_id |-> 1, expired |-> FALSE],
   acc2 |-> [token_type |-> "access", user_id |-> 2, expired |-> FALSE],
   acc3 |-> [token_type |-> "access", user_id |-> 3, expired |-> FALSE],
   old1 |-> [token_type |-> "access", user_id |-> 1, expired |-> TRUE],
   ref1 |-> [token_type |-> "refresh", user_id |-> 1, expired |-> FALSE]]

\* The users the tokens name: user 1 is active, user 2 is not, and there
\* is no user 3.
KnownUsers == <<[is_active |-> TRUE], [is_active |-> FALSE]>>

\* JWTAuthentication.get_validated_token: InvalidToken unless the string
\* is an access token that has not expired.
get_validated_token(raw_token) ==
  IF /\ Len(raw_token) = 1
     /\ raw_token[1] \in DOMAIN TokenClaims
     /\ TokenClaims[raw_token[1]].token_type = "access"
     /\ ~TokenClaims[raw_token[1]].expired
    THEN [raised |-> NoError, ret |-> raw_token]
  ELSE [raised |-> "InvalidToken", ret |-> <<>>]

\* JWTAuthentication.get_user: AuthenticationFailed for a user who does
\* not exist or is inactive.
get_user(validated_token) ==
  LET user_id == TokenClaims[validated_token[1]].user_id
  IN IF user_id \notin DOMAIN KnownUsers
       THEN [raised |-> "AuthenticationFailed", ret |-> NoUser]
     ELSE IF ~KnownUsers[user_id].is_active
       THEN [raised |-> "AuthenticationFailed", ret |-> NoUser]
     ELSE [raised |-> NoError, ret |-> user_id]

\* The outcome of authenticate: the pair returned (no user for None), the
\* exception raised, and the raw tokens handed to get_validated_token.
AuthNone == [user |-> NoUser, token |-> <<>>, raised |-> NoError,
             validated |-> <<>>]

\* The last two lines of authenticate, for a raw token that is not None.
ValidateAndGetUser(raw_token) ==
  LET validated_token == get_validated_token(raw_token)
      user == get_user(validated_token.ret)
  IN IF validated_token.raised # NoError
       THEN [AuthNone EXCEPT !.raised = validated_token.raised,
                             !.validated = <<raw_token>>]
     ELSE IF user.raised # NoError
       THEN [AuthNone EXCEPT !.raised = user.raised,
                             !.validated = <<raw_token>>]
     ELSE [user |-> user.ret, token |-> validated_token.ret,
           raised |-> NoError, validated |-> <<raw_token>>]

Mut_authenticate_cookie_rescues(header, cookie) ==
  LET from_header == IF header.set THEN get_raw_token(header.value)
                     ELSE [raised |-> NoError, ret |-> Absent]
      first == ValidateAndGetUser(from_header.ret.value)
  IN IF from_header.raised # NoError
       THEN [AuthNone EXCEPT !.raised = from_header.raised]
     ELSE IF from_header.ret.set /\ (first.raised = NoError \/ ~cookie.set)
       THEN first
     ELSE IF cookie.set THEN ValidateAndGetUser(cookie.value)
     ELSE AuthNone

\* CookieJWTAuthentication.authenticate
authenticate(header, cookie) ==
  LET from_header == IF header.set THEN get_raw_token(header.value)
                     ELSE [raised |-> NoError, ret |-> Absent]
      raw_token == IF from_header.ret.set THEN from_header.ret ELSE cookie
  IN IF from_header.raised # NoError
       THEN [AuthNone EXCEPT !.raised = from_header.raised]
     ELSE IF ~raw_token.set THEN AuthNone
     ELSE ValidateAndGetUser(raw_token.value)

\* ------------------------------------------------------------------------
\* The functions of auth_app/utils, each applied on its own
\* ------------------------------------------------------------------------
RawTokens ==
  { <<"acc1">>, <<"acc2">>, <<"acc3">>, <<"old1">>, <<"ref1">>, <<"junk">> }

\* Authorization headers: none, empty, blank, another scheme, the scheme
\* alone, the scheme and a token with one or more blanks between and
\* around them or with none, and three words.
Headers ==
  {Absent, Some(<<>>), Some(<<" ">>), Some(<<"Basic", " ", "acc1">>),
   Some(<<"Bearer">>), Some(<<"Bearer", "acc1">>),
   Some(<<"Bearer", " ", "acc1", " ", "acc1">>),
   Some(<<" ", "Bearer", " ", " ", "acc1", " ">>)}
    \cup {Some(<<"Bearer", " ">> \o t) : t \in RawTokens}

AccessCookies == {Absent, Some(<<>>)} \cup {Some(t) : t \in RawTokens}

\* Tokens as they arrive in a link: the atoms of a token, of the marks
\* quoted-printable leaves, and of what else a mail client may add.
SanitizeAtoms == {"abc", "20def", "3D", "=", "-", "_", "\r", "\n", " ", "!"}

DocumentedExample == <<"abc", "=", "20def", "\r", "\n">>

AuthFnArgs ==
  {[op |-> "authenticate", header |-> h, cookie |-> c] :
     h \in Headers, c \in AccessCookies}
  \cup {[op |-> "sanitize_token", value |-> v] :
          v \in SeqsUpTo(SanitizeAtoms, 3) \cup {DocumentedExample}}

Apply_authenticate ==
  /\ arg.op = "authenticate"
  /\ Len(res) < MaxCalls
  /\ res' = Append(res, authenticate(arg.header, arg.cookie))
  /\ UNCHANGED <<rows, next_pk, fs, jobs, arg, authVars>>

Apply_sanitize_token ==
  /\ arg.op = "sanitize_token"
  /\ Len(res) < MaxCalls
  /\ res' = Append(res, [ret |-> sanitize_token(arg.value)])
  /\ UNCHANGED <<rows, next_pk, fs, jobs, arg, authVars>>

InitAuthFn ==
  /\ rows = <<>>
  /\ next_pk = 1
  /\ fs = EmptyFs
  /\ jobs = <<>>
  /\ arg \in AuthFnArgs
  /\ res = <<>>
  /\ AuthIdle

NextAuthFn ==
  \/ Apply_authenticate
  \/ Apply_sanitize_token

SpecAuthFn == InitAuthFn /\ [][NextAuthFn]_vars

\* ========================================================================
\* Properties
\* ========================================================================
Applied(op) == arg.op = op /\ res # <<>>

\* ---- _run_ffmpeg ------------------------------------------------------
\* t is s without its leading and trailing whitespace.
IsTrimOf(t, s) ==
  \E lo \in 0..Len(s) :
    /\ \A k \in 1..lo : s[k] \in Whitespace
    /\ \A k \in (lo + Len(t) + 1)..Len(s) : s[k] \in Whitespace
    /\ lo + Len(t) <= Len(s)
    /\ t = SubSeq(s, lo + 1, lo + Len(t))
    /\ t # <<>> => t[1] \notin Whitespace /\ t[Len(t)] \notin Whitespace

\* C4: _run_ffmpeg returns normally iff the process exited with status 0;
\* for every other status it raises an error whose message holds the exit
\* code and the captured error output without its leading and trailing
\* whitespace; the command is executed exactly once, with no second try.
C4_RunFfmpegRaisesOnNonZero ==
  arg.op = "_run_ffmpeg" =>
    \A i \in 1..Len(res) :
      LET r == res[i]
          rc == arg.result.returncode
      IN /\ r.raised <=> rc # 0
         /\ r.calls = 1
         /\ r.raised =>
              \E k \in 1..Len(r.message) :
                /\ r.message[k] = ToString(rc)
                /\ IsTrimOf(From(r.message, k + 1), arg.result.stderr)

C4_Witness ==
  /\ Applied("_run_ffmpeg")
  /\ arg.result.returncode = 255
  /\ arg.result.stderr = <<" ", "Error">>
  /\ res[1].raised
  /\ res[1].message = <<"ffmpeg failed with code ", "255", ": ", "Error">>

\* ---- _has_audio -------------------------------------------------------
\* C6 as stated: _has_audio returns True iff the probe exited with status
\* 0 and produced non-empty output.
C6_TrueIffNonEmptyOutput ==
  arg.op = "_has_audio" =>
    \A i \in 1..Len(res) :
      res[i].ret <=> (arg.probe.returncode = 0 /\ arg.probe.stdout # <<>>)

\* C6 amended: _has_audio returns True iff the probe exited with status 0
\* and its output holds at least one character that is not whitespace.
C6_TrueIffNonBlankOutput ==
  arg.op = "_has_audio" =>
    \A i \in 1..Len(res) :
      res[i].ret <=>
        /\ arg.probe.returncode = 0
        /\ \E k \in 1..Len(arg.probe.stdout) :
             arg.probe.stdout[k] \notin Whitespace

C6_Witness ==
  /\ Applied("_has_audio")
  /\ arg.probe = [returncode |-> 0, stdout |-> <<"1", "\n">>]
  /\ res[1].ret

\* ---- _prepare_hls_dirs -------------------------------------------------
\* A file name without its extension: the part before the last dot, when
\* something other than dots stands before that dot.
ExtStripped(b) ==
  LET cut == {k \in 2..Len(b) :
                /\ b[k] = DOT
                /\ \A m \in (k + 1)..Len(b) : b[m] # DOT
                /\ \E m \in 1..(k - 1) : b[m] # DOT}
  IN IF cut = {} THEN b ELSE Upto(b, (CHOOSE k \in cut : TRUE) - 1)

\* The source with its extension replaced by e.
WithExt(source, e) ==
  Upto(source, Len(source) - Len(Basename(source)))
    \o ExtStripped(Basename(source)) \o <<DOT>> \o e

\* C7: the directory _prepare_hls_dirs returns lies in the directory of the
\* source, and its name is the base name of the source without its
\* extension, followed by '_hls'; a source that differs only in its
\* extension gets the same directory.
C7_HlsDirNextToSource ==
  arg.op = "_prepare_hls_dirs" =>
    \A i \in 1..Len(res) :
      LET out == res[i].ret
          stem == ExtStripped(Basename(arg.source))
      IN /\ Dirname(out) = Dirname(arg.source)
         /\ Basename(out) = stem \o <<"_hls">>
         /\ (\E k \in 1..Len(stem) : stem[k] # DOT) =>
              \A e \in {<<"a">>, <<"mkv">>} :
                _prepare_hls_dirs(EmptyFs, WithExt(arg.source, e)).ret = out

C7_Witness ==
  /\ Applied("_prepare_hls_dirs")
  /\ arg.source = VideoFilePath(<<"clip", DOT, "mp4">>)
  /\ res[1].ret = Join2(MEDIA_ROOT, <<"videos", SEP, "clip", "_hls">>)

\* The directories below p.
DirsBelow(f, p) == {d \in f.dirs : IsBelow(d, p)}

VariantDirs(out) == {Join2(out, <<Variants[i]>>) : i \in 1..Len(Variants)}

\* C8 as stated: for every source and every initial filesystem, a second
\* run of _prepare_hls_dirs leaves the directories of the first run (the
\* output directory with the subdirectories 480p, 720p and 1080p), raises
\* no error and returns the same path.
C8_SecondRunNeverRaises ==
  arg.op = "_prepare_hls_dirs" =>
    \A i \in 2..Len(res) :
      /\ res[i].fs.dirs = res[i - 1].fs.dirs
      /\ res[i].ret = res[i - 1].ret
      /\ res[i].err = NoError
      /\ res[i].ret \in res[i].fs.dirs
      /\ VariantDirs(res[i].ret) \subseteq res[i].fs.dirs

\* C8 amended: for every source and every initial filesystem, a second run
\* of _prepare_hls_dirs leaves the directories and files of the first run
\* and returns the same path; when the first run raised no error, the
\* second raises none, and the output directory then exists with the
\* subdirectories 480p, 720p and 1080p, next to whatever it held before.
C8_PrepareIdempotent ==
  arg.op = "_prepare_hls_dirs" =>
    \A i \in 2..Len(res) :
      /\ res[i].fs = res[i - 1].fs
      /\ res[i].ret = res[i - 1].ret
      /\ res[i].err = res[i - 1].err
      /\ res[i - 1].err = NoError =>
           /\ res[i].err = NoError
           /\ res[i].ret \in res[i].fs.dirs
           /\ VariantDirs(res[i].ret) \subseteq DirsBelow(res[i].fs, res[i].ret)
           /\ DirsBelow(res[i].fs, res[i].ret)
                = VariantDirs(res[i].ret) \cup DirsBelow(arg.fs, res[i].ret)

C8_Witness ==
  /\ arg.op = "_prepare_hls_dirs"
  /\ arg.source = VideoFilePath(<<"clip", DOT, "mp4">>)
  /\ arg.fs.dirs = Ancestors(arg.source)
  /\ Len(res) = 2
  /\ res[2].err = NoError
  /\ Cardinality(res[2].fs.dirs) = Cardinality(arg.fs.dirs) + 4

\* ---- _build_hls_cmd ---------------------------------------------------
\* The values of an option: the arguments that follow it, in order.
RECURSIVE OptionValues(_, _)
OptionValues(cmd, opt) ==
  IF Len(cmd) < 2 THEN <<>>
  ELSE IF cmd[1] = <<opt>>
    THEN <<cmd[2]>> \o OptionValues(From(cmd, 2), opt)
  ELSE OptionValues(Tail(cmd), opt)

HasOption(cmd, opt) == \E k \in 1..Len(cmd) : cmd[k] = <<opt>>

\* The variants of a variant map, each the sequence of its entries.
VariantEntries(var_stream_map) ==
  LET vs == SplitOn(var_stream_map, " ")
  IN [i \in 1..Len(vs) |-> SplitOn(vs[i], ",")]

VideoOuts == << <<"[v480out]">>, <<"[v720out]">>, <<"[v1080out]">> >>
AudioRef == <<"0:a:0?">>
AudioKeys == {<<"a:0">>, <<"a:1">>, <<"a:2">>}

\* The entries of a variant that bind an audio index.
AudioBindings(variant) ==
  {k \in 1..Len(variant) : variant[k] \in AudioKeys}

\* C9: without audio the command has no audio codec option, no sample
\* rate option and no audio map; it maps exactly the three scaled video
\* streams, and its variant map lists exactly the variants 480p, 720p and
\* 1080p, none of them with an audio index.
C9_NoAudioCommand ==
  (arg.op = "_build_hls_cmd" /\ ~arg.has_audio) =>
    \A i \in 1..Len(res) :
      LET cmd == res[i].ret
          vsm == OptionValues(cmd, "-var_stream_map")
      IN /\ ~HasOption(cmd, "-c:a")
         /\ ~HasOption(cmd, "-ar")
         /\ OptionValues(cmd, "-map") = VideoOuts
         /\ Len(vsm) = 1
         /\ VariantEntries(vsm[1])
              = << << <<"v:0">>, <<"name:480p">> >>,
                   << <<"v:1">>, <<"name:720p">> >>,
                   << <<"v:2">>, <<"name:1080p">> >> >>
         /\ \A v \in 1..3 : AudioBindings(VariantEntries(vsm[1])[v]) = {}

C9_Witness ==
  /\ Applied("_build_hls_cmd")
  /\ ~arg.has_audio
  /\ arg.source = <<"a">>
  /\ arg.output_dir = <<"b">>
  /\ Len(res[1].ret) = 28
  /\ res[1].ret[28] = <<"b", SEP, "%v", SEP, "playlist", DOT, "m3u8">>

\* C10: with audio the command maps, after each of the three scaled video
\* streams, one optional reference to the first audio stream; it has the
\* audio codec and sample rate options; its variant map binds the audio
\* indices 0, 1 and 2 to the variants 480p, 720p and 1080p, as many
\* indices as audio streams are mapped.
C10_AudioCommand ==
  (arg.op = "_build_hls_cmd" /\ arg.has_audio) =>
    \A i \in 1..Len(res) :
      LET cmd == res[i].ret
          vsm == OptionValues(cmd, "-var_stream_map")
          maps == OptionValues(cmd, "-map")
          variants == VariantEntries(vsm[1])
      IN /\ maps = << VideoOuts[1], AudioRef, VideoOuts[2], AudioRef,
                      VideoOuts[3], AudioRef >>
         /\ OptionValues(cmd, "-c:a") = << <<"aac">> >>
         /\ OptionValues(cmd, "-ar") = << <<"48000">> >>
         /\ Len(vsm) = 1
         /\ variants
              = << << <<"v:0">>, <<"a:0">>, <<"name:480p">> >>,
                   << <<"v:1">>, <<"a:1">>, <<"name:720p">> >>,
                   << <<"v:2">>, <<"a:2">>, <<"name:1080p">> >> >>
         /\ Cardinality({k \in 1..Len(maps) : maps[k] = AudioRef})
              = Cardinality({variants[v][k] :
                               v \in 1..Len(variants), k \in 1..2} \cap AudioKeys)

C10_Witness ==
  /\ Applied("_build_hls_cmd")
  /\ arg.has_audio
  /\ arg.source = <<"a">>
  /\ arg.output_dir = <<"b">>
  /\ Len(res[1].ret) = 38
  /\ res[1].ret[38] = <<"b", SEP, "%v", SEP, "playlist", DOT, "m3u8">>

\* ---- the jobs of a video ------------------------------------------------
ConvertJobs == {j \in JobIds : jobs[j].func = "convert_hls"}
ThumbnailJobs == {j \in JobIds : jobs[j].func = "extract_thumbnail"}

\* The two jobs video_post_save enqueued for one video.
JobPairs ==
  {p \in ConvertJobs \X ThumbnailJobs :
     jobs[p[1]].video_id = jobs[p[2]].video_id}

TranscodeFailed(h) == jobs[h].calls = 1 /\ jobs[h].rc # 0

ThumbnailUrlOf(pk) == IF pk \in DOMAIN rows THEN rows[pk].thumbnail_url ELSE NoUrl

\* C1 as stated: the two jobs of a video form one job in which the first
\* subprocess failure aborts all remaining steps: once the transcode
\* exited non-zero, thumbnail extraction does not run and no thumbnail URL
\* is persisted.
C1_TranscodeFailureAbortsThumbnail ==
  [][\A p \in JobPairs :
       TranscodeFailed(p[1]) =>
         /\ jobs'[p[2]].calls = jobs[p[2]].calls
         /\ \A pk \in DOMAIN rows \cap DOMAIN rows' :
              rows'[pk].thumbnail_url = rows[pk].thumbnail_url]_vars

\* C1 amended: each of the two jobs of a video ends on its own, completed
\* or failed.  A job runs its subprocess at most once; it is completed only
\* when the subprocess exited 0, and a non-zero exit fails the job at once,
\* so that none of its later steps run.  The thumbnail URL of a record is
\* persisted exactly when its extract_thumbnail job completed, whatever
\* became of its convert_hls job.
C1_EachJobCompletesOrFails ==
  \A j \in JobIds :
    LET job == jobs[j]
    IN /\ job.calls <= 1
       /\ job.pc = "completed" =>
            job.calls = 1 /\ job.rc = 0 /\ job.err = NoError
       /\ job.pc = "failed" =>
            /\ job.err # NoError
            /\ job.err = "RuntimeError" <=> (job.calls = 1 /\ job.rc # 0)
       /\ (job.calls = 1 /\ job.rc # 0) => job.pc = "failed"
       /\ (job.func = "extract_thumbnail" /\ job.video_id \in DOMAIN rows) =>
            /\ rows[job.video_id].thumbnail_url # NoUrl <=> job.pc = "completed"
            /\ job.pc = "completed" =>
                 rows[job.video_id].thumbnail_url = _thumbnail_url(job.output)

C1_Witness ==
  \E p \in JobPairs :
    /\ TranscodeFailed(p[1])
    /\ jobs[p[1]].pc = "failed"
    /\ jobs[p[2]].pc = "completed"
    /\ ThumbnailUrlOf(jobs[p[2]].video_id) # NoUrl

\* C2: two jobs that run at the same time for two different source files
\* never write to the same place: the output directory of one convert_hls
\* job differs from that of the other, and so do the thumbnail paths of
\* two extract_thumbnail jobs.
C2_DifferentSourcesNeverCollide ==
  \A i \in JobIds, k \in JobIds :
    ( /\ i # k
      /\ jobs[i].func = jobs[k].func
      /\ jobs[i].source # jobs[k].source
      /\ Running(i) /\ Running(k)
      /\ jobs[i].output # <<>> /\ jobs[k].output # <<>> )
    => jobs[i].output # jobs[k].output

\* C3: a step of extract_thumbnail changes the Video table only by setting
\* thumbnail_url of the row with its video_id, and only after its
\* subprocess exited 0; a non-zero exit fails the job with the error and
\* leaves every row as it was, and a failed job takes no further step.
C3_OnlyThumbnailUrlOfOneRow ==
  [][\A j \in ThumbnailJobs :
       jobs'[j] # jobs[j] =>
         /\ DOMAIN rows' = DOMAIN rows
         /\ jobs[j].pc # "failed"
         /\ \A pk \in DOMAIN rows :
              /\ rows'[pk].title = rows[pk].title
              /\ rows'[pk].video_file = rows[pk].video_file
              /\ pk # jobs[j].video_id =>
                   rows'[pk].thumbnail_url = rows[pk].thumbnail_url
         /\ rows' # rows =>
              /\ jobs[j].calls = 1 /\ jobs[j].rc = 0
              /\ rows'[jobs[j].video_id].thumbnail_url
                   = _thumbnail_url(jobs[j].output)
         /\ (jobs'[j].calls = 1 /\ jobs'[j].rc # 0) =>
              /\ rows' = rows
              /\ jobs'[j].pc = "failed"
              /\ jobs'[j].err = "RuntimeError"]_vars

C3_Witness ==
  \E j \in ThumbnailJobs, k \in ThumbnailJobs :
    /\ jobs[j].pc = "completed"
    /\ ThumbnailUrlOf(jobs[j].video_id) = _thumbnail_url(jobs[j].output)
    /\ jobs[k].pc = "failed" /\ jobs[k].err = "RuntimeError"
    /\ jobs[k].video_id \in DOMAIN rows
    /\ rows[jobs[k].video_id].thumbnail_url = NoUrl

\* ---- the probe in convert_hls -------------------------------------------
ProbeFailed(probe) == probe.returncode # 0 \/ probe.stdout = <<>>

OSErrors == {"FileExistsError", "NotADirectoryError", "FileNotFoundError"}

\* C5: a probe that exits non-zero or prints nothing is never surfaced:
\* _has_audio returns False, convert_hls goes on to prepare the output
\* directories, and the transcoder it then runs gets the video-only
\* command; the job fails only when the preparation or the transcoder
\* fails.
C5_ProbeFailureMeansNoAudio ==
  \A j \in ConvertJobs :
    (jobs[j].pc # "queued" /\ ProbeFailed(jobs[j].probe)) =>
      /\ ~jobs[j].has_audio
      /\ jobs[j].pc = "failed" =>
           \/ jobs[j].err \in OSErrors /\ jobs[j].calls = 0
           \/ jobs[j].err = "RuntimeError" /\ TranscodeFailed(j)
      /\ jobs[j].calls = 1 =>
           /\ jobs[j].cmd = _build_hls_cmd(jobs[j].source, jobs[j].output, FALSE)
           /\ OptionValues(jobs[j].cmd, "-map") = VideoOuts
           /\ ~HasOption(jobs[j].cmd, "-c:a")

C5_Witness ==
  \E j \in ConvertJobs :
    /\ jobs[j].probe = [returncode |-> 1, stdout |-> <<"1", "\n">>]
    /\ jobs[j].pc = "completed"
    /\ OptionValues(jobs[j].cmd, "-map") = VideoOuts

WithoutTrailing(s, c) ==
  LET keep == {k \in 0..Len(s) :
                 /\ \A i \in (k + 1)..Len(s) : s[i] = c
                 /\ k > 0 => s[k] # c}
  IN Upto(s, CHOOSE k \in keep : TRUE)

\* s without the c's at its start.
WithoutLeading(s, c) ==
  LET drop == {k \in 0..Len(s) :
                 /\ \A i \in 1..k : s[i] = c
                 /\ k < Len(s) => s[k + 1] # c}
  IN From(s, CHOOSE k \in drop : TRUE)

ForwardSlashes(s) == [i \in 1..Len(s) |-> IF s[i] = "\\" THEN SEP ELSE s[i]]

\* C12: for a thumbnail below the media root, _thumbnail_url returns the
\* base URL, one '/', the media URL prefix and the path relative to the
\* media root with '/' for every backslash; the '/' between base URL and
\* media prefix is the only one there, whether or not the base URL ends
\* with '/' or the media URL starts with '/'.
C12_ThumbnailUrlFormat ==
  arg.op = "_thumbnail_url" =>
    \A i \in 1..Len(res) :
      LET url == res[i].ret
          base == WithoutTrailing(arg.settings.MEDIA_BASE_URL, SEP)
          prefix == WithoutLeading(arg.settings.MEDIA_URL, SEP)
          rest == prefix \o ForwardSlashes(arg.relative)
          cut == Len(base) + 1
      IN /\ url = base \o <<SEP>> \o rest
         /\ url[cut] = SEP
         /\ cut > 1 => url[cut - 1] # SEP
         /\ url[cut + 1] # SEP
         /\ \A k \in 1..Len(url) : url[k] # "\\"

C12_Witness ==
  /\ Applied("_thumbnail_url")
  /\ arg.settings.MEDIA_ROOT = <<SEP, "data", SEP, "media">>
  /\ arg.settings.MEDIA_BASE_URL = <<"https:", SEP, SEP, "cdn", DOT, "example">>
  /\ arg.settings.MEDIA_URL = <<SEP, "media", SEP>>
  /\ arg.output_path
       = <<SEP, "data", SEP, "media", SEP, "thumbnail", SEP, "clip", DOT, "jpg">>
  /\ res[1].ret
       = <<"https:", SEP, SEP, "cdn", DOT, "example", SEP, "media", SEP,
           "thumbnail", SEP, "clip", DOT, "jpg">>

\* ---- _segment_is_valid -------------------------------------------------
\* A name without a directory component that ends with '.ts'.
PlainTsName(segment) ==
  /\ \A k \in 1..Len(segment) : segment[k] # SEP
  /\ Len(segment) >= 2
  /\ segment[Len(segment) - 1] = DOT
  /\ segment[Len(segment)] = "ts"

\* C13: _segment_is_valid accepts a name iff it has no directory component
\* and ends with '.ts'; it accepts 'segment_001.ts' and rejects
\* '../secret.txt', 'sub/segment.ts' and 'segment.m4s'; the segment
\* endpoint answers every name that is rejected with 400 and opens no file.
C13_SegmentNameValidation ==
  /\ arg.op = "_segment_is_valid" =>
       \A i \in 1..Len(res) :
         /\ res[i].ret <=> PlainTsName(arg.segment)
         /\ arg.segment = <<"segment_001", DOT, "ts">> => res[i].ret
         /\ arg.segment \in SegmentExamples \ {<<"segment_001", DOT, "ts">>}
              => ~res[i].ret
  /\ arg.op = "VideoHlsSegmentAPIView.get" =>
       \A i \in 1..Len(res) :
         ~PlainTsName(arg.segment) =>
           res[i].status = 400 /\ res[i].opened = {}

C13_Witness ==
  /\ Applied("VideoHlsSegmentAPIView.get")
  /\ arg.rows = ServedRows
  /\ arg.fs = ServedFs
  /\ arg.resolution = <<DOT, DOT>>
  /\ arg.segment = <<DOT, DOT, SEP, "secret", DOT, "txt">>
  /\ IsFile(arg.fs, Resolve(arg.fs, _segment_path(_hls_dir_for_video(arg.rows[1]),
                                                 arg.resolution, arg.segment)))
  /\ res[1].status = 400

\* ---- video_post_save ----------------------------------------------------
JobsOf(pk, func) ==
  {j \in JobIds : jobs[j].video_id = pk /\ jobs[j].func = func}

\* C14: after any sequence of saves, the queue has received for every
\* record that was created exactly one convert_hls job and, right after
\* it, exactly one extract_thumbnail job, both for the file the record was
\* created with, and nothing else; a save of an existing record adds no
\* job.
C14_JobsOncePerCreatedVideo ==
  /\ Len(jobs) = 2 * (next_pk - 1)
  /\ \A pk \in 1..(next_pk - 1) :
       /\ Cardinality(JobsOf(pk, "convert_hls")) = 1
       /\ Cardinality(JobsOf(pk, "extract_thumbnail")) = 1
       /\ \A h \in JobsOf(pk, "convert_hls") :
            /\ h + 1 \in JobsOf(pk, "extract_thumbnail")
            /\ jobs[h + 1].source = jobs[h].source
            /\ pk \in DOMAIN rows => rows[pk].video_file = jobs[h].source

C14_Witness ==
  /\ DOMAIN rows = {1, 2}
  /\ rows[1].title \in EditedTitles
  /\ rows[2].title \in EditedTitles
  /\ Len(jobs) = 4
  /\ jobs[1].func = "convert_hls" /\ jobs[2].func = "extract_thumbnail"
  /\ jobs[1].video_id = 1 /\ jobs[2].video_id = 1

\* ---- auto_delete_video_on_delete ----------------------------------------
HlsDirOf(path) ==
  Join2(Dirname(path), ExtStripped(Basename(path)) \o <<"_hls">>)

ThumbnailOf(path) ==
  MEDIA_ROOT \o <<SEP, "thumbnail", SEP>>
    \o ExtStripped(Basename(path)) \o <<DOT, "jpg">>

\* C15: the delete of a record leaves on disk neither its source file, nor
\* the '<basename>_hls' directory next to it or anything below that
\* directory, nor the thumbnail MEDIA_ROOT/thumbnail/<basename>.jpg;
\* whichever of them do not exist are skipped, the delete never fails for
\* that, and nothing else on disk changes.
C15_DeleteRemovesArtifacts ==
  [][\A pk \in DOMAIN rows \ DOMAIN rows' :
       LET path == rows[pk].video_file
           hls_dir == HlsDirOf(path)
           thumbnail == ThumbnailOf(path)
       IN /\ fs'.files = {f \in fs.files :
                            f \notin {path, thumbnail} /\ ~IsBelow(f, hls_dir)}
          /\ fs'.dirs = {d \in fs.dirs : d # hls_dir /\ ~IsBelow(d, hls_dir)}
          /\ hls_dir \in fs.files => hls_dir \in fs'.files]_vars

\* A record was deleted after its convert_hls job failed part-way and
\* before its extract_thumbnail job ran: its video file is gone.
C15_Witness ==
  \E p \in JobPairs :
    /\ jobs[p[1]].video_id \notin DOMAIN rows
    /\ jobs[p[1]].pc = "failed" /\ jobs[p[1]].err = "RuntimeError"
    /\ jobs[p[2]].pc = "queued"
    /\ ~Exists(fs, jobs[p[1]].source)
    /\ ~Exists(fs, HlsDirOf(jobs[p[1]].source))
    /\ rows = <<>>

\* ---- registration, activation and login --------------------------------
\* The user a login names: the first whose email is the given one, case
\* aside.
NamedUser(email) ==
  LET found == {pk \in DOMAIN users : Lower(users[pk].email) = Lower(email)}
  IN IF found = {} THEN NoUser
     ELSE CHOOSE pk \in found : \A other \in found : pk <= other

\* C16: a registered user is inactive until activate_user has returned
\* that user; every refresh token that was issued belongs to a user who
\* was activated before; a login answered with tokens names an activated
\* user, and a login with the right password for an inactive user is
\* rejected with a validation error and sets no token cookie.
C16_TokensOnlyAfterActivation ==
  /\ \A pk \in DOMAIN users : users[pk].is_active <=> pk \in activated
  /\ \A jti \in DOMAIN outstanding : outstanding[jti] \in activated
  /\ resp.op = "register" /\ resp.status # 400 =>
       ~users[Len(users)].is_active /\ Len(users) \notin activated
  /\ resp.op = "login" =>
       LET pk == NamedUser(resp.req.email)
       IN /\ resp.status = 200 =>
               /\ pk \in activated
               /\ outstanding[Len(outstanding)] = pk
          /\ resp.status # 200 => resp.set_cookies = {}
          /\ ( /\ pk # NoUser
               /\ users[pk].password.raw = resp.req.password
               /\ pk \notin activated )
             => /\ resp.status = 400
                /\ resp.detail = "Account is not active."
                /\ resp.set_cookies = {}

\* A login with the right password was rejected for an inactive user, and
\* no token has been issued.
C16_Witness ==
  /\ resp.op = "login"
  /\ resp.detail = "Account is not active."
  /\ NamedUser(resp.req.email) # NoUser
  /\ users[NamedUser(resp.req.email)].password.raw = resp.req.password
  /\ outstanding = <<>>

\* ---- activate_user -------------------------------------------------------
\* The user a uid names, if any: the uid is the base64 of a primary key of
\* the table, with '=' or characters outside the alphabet around it.
UidNames(uidb64, pk) ==
  /\ pk \in DOMAIN users
  /\ SelectSeq(uidb64, LAMBDA a : a \notin {"=", "!"}) = <<Base64OfId[pk]>>

\* The token is the one of the user under the current password, with an
\* artifact '3D' in front or not, and has not expired.
TokenChecks(token, pk, expired) ==
  /\ ~expired
  /\ \E n \in 0..1 :
       /\ Len(token) = n + 3
       /\ \A k \in 1..n : token[k] = "3D"
       /\ From(token, n)
            = <<"ts", "-",
                "h" \o ToString(pk) \o "p" \o ToString(users[pk].password.salt)>>

\* C17: activate_user raises nothing.  For a uid that names no user it
\* returns the error 'Invalid activation link.', for a token that fails
\* the check 'Invalid or expired token.', and in both cases the User table
\* stays as it is; otherwise it returns the user, who is active
\* afterwards, whether or not the user was active before, and nothing
\* else of the table changes.
C17_ActivateUserOutcomes ==
  [][(resp = NoResp /\ resp'.op = "activate") =>
       LET req == resp'.req
           named == {pk \in DOMAIN users : UidNames(req.uidb64, pk)}
       IN /\ resp'.raised = NoError
          /\ named = {} =>
               /\ resp'.status = 400
               /\ resp'.detail = "Invalid activation link."
               /\ users' = users /\ activated' = activated
          /\ \A pk \in named :
               IF ~TokenChecks(req.token, pk, req.expired)
                 THEN /\ resp'.status = 400
                      /\ resp'.detail = "Invalid or expired token."
                      /\ users' = users /\ activated' = activated
                 ELSE /\ resp'.status = 200
                      /\ activated' = activated \cup {pk}
                      /\ users' = [users EXCEPT ![pk].is_active = TRUE]]_vars

\* A user who holds a refresh token, and so was active before, has been
\* activated once more.
C17_Witness ==
  /\ resp.op = "activate"
  /\ resp.status = 200
  /\ outstanding # <<>>
  /\ UidNames(resp.req.uidb64, outstanding[1])
  /\ users[outstanding[1]].is_active

\* ---- PasswordResetConfirmView ------------------------------------------
\* A value of the JSON body without the whitespace around it; a value that
\* is missing counts as empty.
Trimmed(v) == IF v.type = "str" THEN Strip(v.value) ELSE <<>>

Missing(v) == v.type \in {"null", "str"} /\ Trimmed(v) = <<>>

\* C18 as stated: PasswordResetConfirmView.post lets no exception out and
\* answers 400 or 200.  It answers 400, with every user as before, when a
\* password is missing or empty after trimming, when the two differ, when
\* the uid names no user, or when the token check fails, in that order;
\* only otherwise does it set the password of the user the uid names, and
\* nothing else, and answer 200.
C18_ConfirmNeverRaises ==
  [][(resp = NoResp /\ resp'.op = "password_confirm") =>
       LET req == resp'.req
           named == {pk \in DOMAIN users : UidNames(req.uidb64, pk)}
           strings == /\ req.new_password.type \in {"null", "str"}
                      /\ req.confirm_password.type \in {"null", "str"}
       IN /\ resp'.raised = NoError
          /\ resp'.status \in {200, 400}
          /\ resp'.status = 400 => users' = users
          /\ strings =>
               IF Missing(req.new_password) \/ Missing(req.confirm_password)
                 THEN /\ resp'.status = 400
                      /\ resp'.detail
                           = "New password and confirmation are required."
               ELSE IF Trimmed(req.new_password)
                         # Trimmed(req.confirm_password)
                 THEN /\ resp'.status = 400
                      /\ resp'.detail = "Passwords do not match."
               ELSE IF named = {}
                 THEN /\ resp'.status = 400
                      /\ resp'.detail = "Invalid reset link."
               ELSE \A pk \in named :
                      IF ~TokenChecks(req.token, pk, req.expired)
                        THEN /\ resp'.status = 400
                             /\ resp'.detail = "Invalid or expired token."
                        ELSE /\ resp'.status = 200
                             /\ users'
                                  = [users EXCEPT ![pk].password =
                                       [raw |-> Trimmed(req.new_password),
                                        salt |-> @.salt + 1]]]_vars

\* ---- LogoutCookieView and CookieRefreshView -----------------------------
\* The cookie holds a refresh token this server issued, which has neither
\* expired nor been blacklisted.
ValidRefreshCookie(cookie, expired) ==
  /\ cookie.type = "refresh"
  /\ \E jti \in DOMAIN outstanding : cookie = RefreshTokenOf(jti)
  /\ cookie.jti \notin blacklist
  /\ ~expired

WithoutCookie(cookie) == cookie.type \in {"absent", "empty"}

\* A refresh request that presents a blacklisted refresh token is answered
\* 401 and sets no cookie, and no token ever leaves the blacklist.
BlacklistedStaysInvalid ==
  /\ blacklist \subseteq blacklist'
  /\ ( /\ resp = NoResp /\ resp'.op = "refresh"
       /\ resp'.req.refresh_token.type = "refresh"
       /\ resp'.req.refresh_token.jti \in blacklist )
     => resp'.status = 401 /\ resp'.set_cookies = {}

\* C19 as stated: LogoutCookieView.post without a refresh_token cookie
\* answers 400, blacklists nothing and deletes no cookie; with a
\* refresh_token cookie it blacklists the token, deletes both cookies and
\* answers 200, and every later refresh with that token is answered 401
\* without an access_token cookie.
C19_LogoutWithAnyCookieSucceeds ==
  [][/\ (resp = NoResp /\ resp'.op = "logout" /\ resp'.req.authenticated) =>
          LET cookie == resp'.req.refresh_token
          IN IF WithoutCookie(cookie)
               THEN /\ resp'.status = 400
                    /\ blacklist' = blacklist
                    /\ resp'.deleted_cookies = {}
               ELSE /\ resp'.status = 200
                    /\ resp'.deleted_cookies = {"access_token", "refresh_token"}
                    /\ cookie.type = "refresh" => cookie.jti \in blacklist'
     /\ BlacklistedStaysInvalid]_vars

\* C19, amended: LogoutCookieView.post without a refresh_token cookie, or
\* with an empty one, answers 400, blacklists nothing and deletes no
\* cookie.  With a cookie that holds a valid refresh token it blacklists
\* that token and no other, deletes both cookies and answers 200.  With
\* any other cookie TokenError leaves the view: nothing is blacklisted and
\* no cookie is deleted.  Every later refresh with a blacklisted token is
\* answered 401 without an access_token cookie.
C19_LogoutBlacklistsValidToken ==
  [][/\ (resp = NoResp /\ resp'.op = "logout" /\ resp'.req.authenticated) =>
          LET cookie == resp'.req.refresh_token
          IN IF WithoutCookie(cookie)
               THEN /\ resp'.status = 400
                    /\ resp'.raised = NoError
                    /\ blacklist' = blacklist
                    /\ resp'.deleted_cookies = {}
             ELSE IF ValidRefreshCookie(cookie, resp'.req.expired)
               THEN /\ resp'.status = 200
                    /\ resp'.raised = NoError
                    /\ blacklist' = blacklist \cup {cookie.jti}
                    /\ resp'.deleted_cookies = {"access_token", "refresh_token"}
             ELSE /\ resp'.raised = "TokenError"
                  /\ resp'.status = 500
                  /\ blacklist' = blacklist
                  /\ resp'.deleted_cookies = {}
     /\ BlacklistedStaysInvalid]_vars

\* A refresh with an unexpired token that a logout has blacklisted was
\* answered 401.
C19_Witness ==
  /\ resp.op = "refresh"
  /\ resp.req.refresh_token.type = "refresh"
  /\ resp.req.refresh_token.jti \in blacklist
  /\ ~resp.req.expired
  /\ resp.status = 401
  /\ resp.set_cookies = {}

\* C20: CookieRefreshView.post answers 400 when the refresh_token cookie is
\* absent, 401 when the token does not verify, and 200 with a new access
\* token otherwise; only the 200 response sets a cookie, and that is the
\* access_token cookie alone, HttpOnly, SameSite=Lax, and Secure iff DEBUG
\* is off; the refresh_token cookie is never set nor deleted.
C20_RefreshOutcomes ==
  [][(resp = NoResp /\ resp'.op = "refresh") =>
       LET req == resp'.req
           cookie == req.refresh_token
       IN /\ resp'.raised = NoError
          /\ resp'.deleted_cookies = {}
          /\ \A c \in resp'.set_cookies : c.key # "refresh_token"
          /\ IF cookie.type = "absent"
               THEN resp'.status = 400 /\ resp'.set_cookies = {}
             ELSE IF ~ValidRefreshCookie(cookie, req.expired)
               THEN resp'.status = 401 /\ resp'.set_cookies = {}
             ELSE /\ resp'.status = 200
                  /\ \E c \in resp'.set_cookies :
                       /\ resp'.set_cookies = {c}
                       /\ c.key = "access_token"
                       /\ c.value.type = "access"
                       /\ c.httponly
                       /\ c.samesite = "Lax"
                       /\ c.secure <=> ~req.debug]_vars

\* A valid refresh token was presented with DEBUG off and the response
\* sets a Secure access_token cookie.
C20_Witness ==
  /\ resp.op = "refresh"
  /\ resp.status = 200
  /\ ~resp.req.debug
  /\ \E c \in resp.set_cookies : c.key = "access_token" /\ c.secure

\* ---- CookieJWTAuthentication -------------------------------------------
\* The header holds the scheme and the token t, with whitespace between
\* and possibly around them, and nothing else.
HeaderYields(h, t) ==
  /\ h.set
  /\ \E i, j \in 1..Len(h.value) :
       /\ i + 1 < j
       /\ h.value[i] = "Bearer"
       /\ <<h.value[j]>> = t
       /\ \A k \in 1..Len(h.value) \ {i, j} : h.value[k] \in Whitespace

\* There is no header, or it is blank, or its first word is not the
\* scheme.
HeaderYieldsNothing(h) ==
  \/ ~h.set
  \/ \A k \in 1..Len(h.value) : h.value[k] \in Whitespace
  \/ \E i \in 1..Len(h.value) :
       /\ \A k \in 1..(i - 1) : h.value[k] \in Whitespace
       /\ h.value[i] \notin Whitespace
       /\ \/ h.value[i] # "Bearer"
          \/ i < Len(h.value) /\ h.value[i + 1] \notin Whitespace

\* The token is an access token that has not expired, of user 1, the one
\* active user.
GoodToken(t) == t = <<"acc1">>

\* What authenticate does with the one raw token it has chosen: the token
\* alone is validated, and the outcome is the user of a good token and an
\* exception for every other.
Chosen(r, t) ==
  /\ r.validated = <<t>>
  /\ IF GoodToken(t)
       THEN r.raised = NoError /\ r.user = 1 /\ r.token = t
       ELSE r.raised \in {"InvalidToken", "AuthenticationFailed"}
            /\ r.user = NoUser

\* C21: authenticate takes the token from the Authorization header when
\* the header yields one, whatever the cookie holds, and validates that
\* token alone, so that a bad header token fails though the cookie is
\* good; it takes the access_token cookie only when the header yields no
\* token; it returns None, raising nothing and validating nothing, when
\* there is neither.
C21_HeaderBeforeCookie ==
  arg.op = "authenticate" =>
    \A n \in 1..Len(res) :
      LET r == res[n]
      IN /\ \A t \in RawTokens : HeaderYields(arg.header, t) => Chosen(r, t)
         /\ HeaderYieldsNothing(arg.header) =>
              IF arg.cookie.set THEN Chosen(r, arg.cookie.value)
              ELSE r = AuthNone
         /\ r.validated # <<>> /\ r.validated[1] = arg.cookie.value
              /\ (\A t \in RawTokens : ~HeaderYields(arg.header, t))
              => HeaderYieldsNothing(arg.header)

\* A header with a token that is no token came with a good cookie, and
\* authenticate raised InvalidToken after validating the header token
\* alone.
C21_Witness ==
  /\ arg.op = "authenticate"
  /\ arg.header = Some(<<"Bearer", " ", "junk">>)
  /\ arg.cookie = Some(<<"acc1">>)
  /\ res # <<>>
  /\ res[1].raised = "InvalidToken"
  /\ res[1].validated = << <<"junk">> >>

\* ---- sanitize_token -----------------------------------------------------
\* The characters of a string, one after the other.
RECURSIVE Joined(_)
Joined(s) == IF s = <<>> THEN "" ELSE Head(s) \o Joined(Tail(s))

\* The atoms made of letters and digits only, and '-'.
TokenAlphabet == {"abc", "20def", "def", "3D", "-"}

\* The result holds nothing outside the token alphabet.
OnlyTokenAlphabet ==
  arg.op = "sanitize_token" =>
    \A n \in 1..Len(res) :
      \A k \in 1..Len(res[n].ret) : res[n].ret[k] \in TokenAlphabet

\* C22 as stated: the result of sanitize_token contains only letters,
\* digits and '-', and for the documented example "abc=20def\r\n" it is
\* "abcdef".
C22_DocumentedExample ==
  /\ OnlyTokenAlphabet
  /\ (arg.op = "sanitize_token" /\ arg.value = DocumentedExample) =>
       \A n \in 1..Len(res) : Joined(res[n].ret) = "abcdef"

\* ---- HLS delivery ------------------------------------------------------
\* The path lies below the directory.
Inside(directory, path) ==
  /\ Len(path) > Len(directory) + 1
  /\ Upto(path, Len(directory) + 1) = directory \o <<SEP>>

NoSlash(s) == s # <<>> /\ \A k \in 1..Len(s) : s[k] # SEP

\* C23 as stated: whatever the resolution and the segment of a request to
\* the segment endpoint or the manifest endpoint are, as long as they are
\* non-empty and hold no '/', every file that is opened lies inside the
\* '<basename>_hls' directory of the requested video.
C23_ServedFromOwnHlsDir ==
  ( /\ arg.op \in {"VideoHlsSegmentAPIView.get", "VideoHlsManifestAPIView.get"}
    /\ NoSlash(arg.resolution)
    /\ arg.op = "VideoHlsSegmentAPIView.get" => NoSlash(arg.segment) )
  => \A n \in 1..Len(res) :
       \A path \in res[n].opened :
         /\ arg.movie_id \in DOMAIN arg.rows
         /\ Inside(_hls_dir_for_video(arg.rows[arg.movie_id]), path)

\* ---- delete and the other records ---------------------------------------
\* What is on disk of the artifacts of the record stored at path: the
\* source file, the HLS directory with everything below it, and the
\* thumbnail.
ArtifactsOn(fs0, path) ==
  LET hls_dir == HlsDirOf(path)
  IN [files |-> {f \in fs0.files :
                   f \in {path, ThumbnailOf(path)} \/ IsBelow(f, hls_dir)},
      dirs |-> {d \in fs0.dirs : d = hls_dir \/ IsBelow(d, hls_dir)}]

\* C24 as stated: the delete of a record leaves the source file, the HLS
\* directory and the thumbnail of every other record that still exists as
\* they were.
C24_DeleteSparesOtherRecords ==
  [][DOMAIN rows' # DOMAIN rows /\ DOMAIN rows' \subseteq DOMAIN rows =>
       \A other \in DOMAIN rows' :
         ArtifactsOn(fs', rows[other].video_file)
           = ArtifactsOn(fs, rows[other].video_file)]_vars

\* ---- delete and the jobs of the record ----------------------------------
Finished(j) == jobs[j].pc \in {"completed", "failed"}

\* No job of another video works on a file with the same base name, so
\* that the HLS directory and the thumbnail belong to one video alone.
OwnArtifacts(j) ==
  \A k \in JobIds :
    jobs[k].video_id # jobs[j].video_id =>
      HlsDirOf(jobs[k].source) # HlsDirOf(jobs[j].source)

\* C25 as stated: whenever a record has been deleted and its two jobs have
\* finished, in whatever order these things happened, neither the source
\* file nor the '<basename>_hls' directory nor the thumbnail of that
\* video is on disk.
C25_NothingLeftAfterDelete ==
  \A p \in JobPairs :
    ( /\ jobs[p[1]].video_id \notin DOMAIN rows
      /\ Finished(p[1]) /\ Finished(p[2])
      /\ OwnArtifacts(p[1]) )
    => /\ ~Exists(fs, jobs[p[1]].source)
       /\ ~Exists(fs, HlsDirOf(jobs[p[1]].source))
       /\ ~Exists(fs, ThumbnailOf(jobs[p[1]].source))

====
